---- MODULE Spec2Model ----
(***************************************************************************)
(* A model of the comparison engine of the Excel comparison tool           *)
(* (src/comparison_engine.py) over the parsed documents that               *)
(* src/excel_parser.py hands to it.                                        *)
(*                                                                         *)
(* Python values are encoded as follows.                                   *)
(*   - A cell value is a string.  None stands for a cell without a value:  *)
(*     Python's None and pandas' NaN, which DataFrame.isna() does not      *)
(*     tell apart.  The empty string "" is a value of its own.             *)
(*   - A DataFrame is the sequence of its rows, each row a sequence of     *)
(*     cell values, all rows of one length (openpyxl's iter_rows yields a  *)
(*     rectangle).  DataFrame() is <<>>.                                   *)
(*   - A dict is a function; the empty dict {} is <<>>.                    *)
(*   - A value that is an int on one path and a str on another is tagged:  *)
(*     PyInt(n) and PyStr(s).                                              *)
(***************************************************************************)
EXTENDS Integers, Sequences, FiniteSets, TLC

VARIABLES
    df1,            \* parser1.get_sheet_data(sheet_name)
    df2,            \* parser2.get_sheet_data(sheet_name)
    sheet_comp,     \* what _compare_single_sheet returned
    sheet_pc,       \* "start" before the call, "done" after it
    formulas1,      \* parser1.get_formulas()
    formulas2,      \* parser2.get_formulas()
    formula_comp,   \* what _compare_formulas returned
    formula_pc,     \* "start" before the call, "done" after it
    vba1,           \* vba_analyzer.analyze_vba_from_file(parser1.file_path)
    vba2,           \* vba_analyzer.analyze_vba_from_file(parser2.file_path)
    vba_comp,       \* what compare_vba_code returned
    vba_pc,         \* "start" before the call, "done" after it
    files,          \* the file system: path |-> file
    parser1,        \* ComparisonEngine.parser1
    parser2,        \* ComparisonEngine.parser2
    comparison_results,  \* ComparisonEngine.comparison_results
    last_load,      \* what the most recent load_files returned
    last_call,      \* the most recent call on the engine and what it returned
    prev_call,      \* the call before the most recent one
    compared_paths, \* the paths of the parsers that comparison_results was computed from
    gui,            \* the ExcelComparisonGUI object: its fields and what its widgets show
    workers,        \* the threads _start_comparison started, each with its position
    after_queue     \* the callbacks handed to root.after(0, ...), oldest first

sheet_vars == <<df1, df2, sheet_comp, sheet_pc>>

formula_vars == <<formulas1, formulas2, formula_comp, formula_pc>>

vba_vars == <<vba1, vba2, vba_comp, vba_pc>>

engine_vars == <<files, parser1, parser2, comparison_results, last_load, last_call,
                 prev_call, compared_paths>>

gui_vars == <<gui, workers, after_queue>>

vars == <<sheet_vars, formula_vars, vba_vars, engine_vars, gui_vars>>

(***************************************************************************)
(* Bounds and value domains                                                *)
(***************************************************************************)

\* A grid of the model has at most MaxCells cells (rows * columns).
MaxCells == 4

\* A document of the model has at most MaxFormulas formula cells.
MaxFormulas == 3

None == "None"

\* Cell values: no value, the empty string, one non-empty value.
Val == {None, "", "x"}

Max(a, b) == IF a >= b THEN a ELSE b

EmptyDict == <<>>

PyInt(n) == [int |-> n]

PyStr(s) == [str |-> s]

\* None where the other values are not strings
PyNone == [none |-> TRUE]

\* A Python bool as a returned value
PyBool(b) == [bool |-> b]

\* isinstance(v, int)
IsInt(v) == DOMAIN v = {"int"}

(***************************************************************************)
(* DataFrames (pandas), as far as the engine uses them                     *)
(***************************************************************************)

\* pd.DataFrame(data) for data of `rows` rows and `cols` columns
DataFrames(rows, cols) == [1..rows -> [1..cols -> Val]]

\* The grids a parser can hold: no rows at all, or a rectangle.
Grids ==
    {<<>>} \cup
    UNION {DataFrames(shape[1], shape[2]) :
             shape \in {s \in (1..MaxCells) \X (1..MaxCells) : s[1] * s[2] <= MaxCells}}

\* len(df)
NumRows(df) == Len(df)

\* len(df.columns)
NumCols(df) == IF Len(df) = 0 THEN 0 ELSE Len(df[1])

\* df.shape
Shape(df) == <<NumRows(df), NumCols(df)>>

\* df.empty: any axis of length 0
IsEmpty(df) == NumRows(df) = 0 \/ NumCols(df) = 0

\* df.isna() at one cell
IsNA(v) == v = None

\* df.reindex(index=range(rows), columns=range(cols), fill_value=None):
\* labels the frame has keep their values, new labels get the missing value.
Reindex(df, rows, cols) ==
    [r \in 1..rows |->
        [c \in 1..cols |->
            IF r <= NumRows(df) /\ c <= NumCols(df) THEN df[r][c] ELSE None]]

\* df.iloc[row_idx, col_idx], zero-based
ILoc(df, row_idx, col_idx) == df[row_idx + 1][col_idx + 1]

\* One element of (a != b) for two frames: a missing value is unequal to
\* everything, itself included.
NotEqual(a, b) == IsNA(a) \/ IsNA(b) \/ a # b

(***************************************************************************)
(* ComparisonEngine._compare_single_sheet                                  *)
(***************************************************************************)

\* The comparison without the mask of positions missing on both sides:
\* (df1_padded != df2_padded) alone.
DifferencesAtUnmasked(df1_padded, df2_padded, row_idx, col_idx) ==
    NotEqual(ILoc(df1_padded, row_idx, col_idx), ILoc(df2_padded, row_idx, col_idx))

\* differences = (df1_padded != df2_padded) & ~(df1_padded.isna() & df2_padded.isna()),
\* at one position
DifferencesAt(df1_padded, df2_padded, row_idx, col_idx) ==
    LET v1 == ILoc(df1_padded, row_idx, col_idx)
        v2 == ILoc(df2_padded, row_idx, col_idx)
    IN  NotEqual(v1, v2) /\ ~(IsNA(v1) /\ IsNA(v2))

\* The dict appended to diff_locations for one position
DiffLocation(df1_padded, df2_padded, row_idx, col_idx) ==
    [row         |-> row_idx + 1,
     col         |-> col_idx + 1,
     file1_value |-> ILoc(df1_padded, row_idx, col_idx),
     file2_value |-> ILoc(df2_padded, row_idx, col_idx)]

\* The loops `for row_idx in range(max_rows): for col_idx in range(max_cols)`,
\* entered at (row_idx, col_idx) with diff_locations = acc.
RECURSIVE DiffLoop(_, _, _, _, _, _, _)
DiffLoop(df1_padded, df2_padded, max_rows, max_cols, row_idx, col_idx, acc) ==
    IF row_idx >= max_rows THEN acc
    ELSE IF col_idx >= max_cols
         THEN DiffLoop(df1_padded, df2_padded, max_rows, max_cols, row_idx + 1, 0, acc)
         ELSE DiffLoop(df1_padded, df2_padded, max_rows, max_cols, row_idx, col_idx + 1,
                       IF DifferencesAt(df1_padded, df2_padded, row_idx, col_idx)
                       THEN Append(acc, DiffLocation(df1_padded, df2_padded, row_idx, col_idx))
                       ELSE acc)

\* A column-major walk of the same positions.
RECURSIVE DiffLoopByColumn(_, _, _, _, _, _, _)
DiffLoopByColumn(df1_padded, df2_padded, max_rows, max_cols, col_idx, row_idx, acc) ==
    IF col_idx >= max_cols THEN acc
    ELSE IF row_idx >= max_rows
         THEN DiffLoopByColumn(df1_padded, df2_padded, max_rows, max_cols, col_idx + 1, 0, acc)
         ELSE DiffLoopByColumn(df1_padded, df2_padded, max_rows, max_cols, col_idx, row_idx + 1,
                       IF DifferencesAt(df1_padded, df2_padded, row_idx, col_idx)
                       THEN Append(acc, DiffLocation(df1_padded, df2_padded, row_idx, col_idx))
                       ELSE acc)

DiffLocationsByColumn(df1_padded, df2_padded, max_rows, max_cols) ==
    DiffLoopByColumn(df1_padded, df2_padded, max_rows, max_cols, 0, 0, <<>>)

\* diff_locations after the loops
DiffLocations(df1_padded, df2_padded, max_rows, max_cols) ==
    DiffLoop(df1_padded, df2_padded, max_rows, max_cols, 0, 0, <<>>)

\* The return value when both frames are empty
BothEmptyResult ==
    [identical |-> TRUE, differences |-> PyInt(0), details |-> EmptyDict]

\* The one-empty result with the two flags exchanged.
OneEmptyResultSwapped(d1, d2) ==
    [identical   |-> FALSE,
     differences |-> PyStr("One sheet is empty"),
     details     |-> [file1_empty |-> IsEmpty(d2), file2_empty |-> IsEmpty(d1)]]

\* The return value when one frame is empty
OneEmptyResult(d1, d2) ==
    [identical   |-> FALSE,
     differences |-> PyStr("One sheet is empty"),
     details     |-> [file1_empty |-> IsEmpty(d1), file2_empty |-> IsEmpty(d2)]]

\* The aligned result with the verdict taken from the shapes instead of the
\* difference sequence.
AlignedResultShapeVerdict(d1, d2) ==
    LET max_rows       == Max(NumRows(d1), NumRows(d2))
        max_cols       == Max(NumCols(d1), NumCols(d2))
        df1_padded     == Reindex(d1, max_rows, max_cols)
        df2_padded     == Reindex(d2, max_rows, max_cols)
        diff_locations == DiffLocations(df1_padded, df2_padded, max_rows, max_cols)
    IN  [identical   |-> Shape(d1) = Shape(d2),
         differences |-> PyInt(Len(diff_locations)),
         details     |-> [diff_locations |-> diff_locations,
                          shape_file1    |-> Shape(d1),
                          shape_file2    |-> Shape(d2)]]

\* The return value for two frames with cells: pad, compare, collect.
AlignedResult(d1, d2) ==
    LET max_rows       == Max(NumRows(d1), NumRows(d2))
        max_cols       == Max(NumCols(d1), NumCols(d2))
        df1_padded     == Reindex(d1, max_rows, max_cols)
        df2_padded     == Reindex(d2, max_rows, max_cols)
        diff_locations == DiffLocations(df1_padded, df2_padded, max_rows, max_cols)
    IN  [identical   |-> Len(diff_locations) = 0,
         differences |-> PyInt(Len(diff_locations)),
         details     |-> [diff_locations |-> diff_locations,
                          shape_file1    |-> Shape(d1),
                          shape_file2    |-> Shape(d2)]]

\* _compare_single_sheet without its first test (both frames empty).
CompareSingleSheetNoBothEmpty(d1, d2) ==
    IF IsEmpty(d1) \/ IsEmpty(d2) THEN OneEmptyResult(d1, d2)
    ELSE AlignedResult(d1, d2)

\* _compare_single_sheet on the two frames of one sheet name
CompareSingleSheet(d1, d2) ==
    IF IsEmpty(d1) /\ IsEmpty(d2) THEN BothEmptyResult
    ELSE IF IsEmpty(d1) \/ IsEmpty(d2) THEN OneEmptyResult(d1, d2)
    ELSE AlignedResult(d1, d2)

(***************************************************************************)
(* The Table Aligner on its own: any two grids, one call.                  *)
(***************************************************************************)

NoResult == [pending |-> TRUE]

\* The Formula Differ is not part of this specification.
FormulaIdle ==
    /\ formulas1 = EmptyDict
    /\ formulas2 = EmptyDict
    /\ formula_comp = NoResult
    /\ formula_pc = "idle"

\* The Macro Differ is not part of this specification.
VbaIdle ==
    /\ vba1 = EmptyDict
    /\ vba2 = EmptyDict
    /\ vba_comp = NoResult
    /\ vba_pc = "idle"

\* The engine is not part of this specification: ComparisonEngine.__init__.
EngineIdle ==
    /\ files = EmptyDict
    /\ parser1 = PyNone
    /\ parser2 = PyNone
    /\ comparison_results = EmptyDict
    /\ last_load = PyNone
    /\ last_call = PyNone
    /\ prev_call = PyNone
    /\ compared_paths = PyNone

\* The GUI is not part of this specification: no window, no thread, no callback.
GuiIdle ==
    /\ gui = PyNone
    /\ workers = <<>>
    /\ after_queue = <<>>

SheetInit ==
    /\ df1 \in Grids
    /\ df2 \in Grids
    /\ sheet_comp = NoResult
    /\ sheet_pc = "start"
    /\ FormulaIdle
    /\ VbaIdle
    /\ EngineIdle
    /\ GuiIdle

CompareSingleSheetCall ==
    /\ sheet_pc = "start"
    /\ sheet_comp' = CompareSingleSheet(df1, df2)
    /\ sheet_pc' = "done"
    /\ UNCHANGED <<df1, df2, formula_vars, vba_vars, engine_vars, gui_vars>>

SheetNext == CompareSingleSheetCall

SpecSheet == SheetInit /\ [][SheetNext]_vars

(***************************************************************************)
(* Properties of the Table Aligner (checked under SpecSheet)               *)
(***************************************************************************)

\* The value of grid g at the zero-based position (r, c); a position outside
\* the grid holds the absent marker.
CellAt(g, r, c) ==
    IF r < Len(g) /\ c < Len(g[1]) THEN g[r + 1][c + 1] ELSE None

\* Both grids have rows and the call has returned.
AlignedDone == sheet_pc = "done" /\ Len(df1) > 0 /\ Len(df2) > 0

PaddedRows == Max(Len(df1), Len(df2))

PaddedCols == Max(Len(df1[1]), Len(df2[1]))

\* The difference sequence of the returned result
Locs == sheet_comp.details.diff_locations

\* Some entry of the difference sequence is at the one-based (row, col).
EntryAt(row, col) == \E i \in DOMAIN Locs : Locs[i].row = row /\ Locs[i].col = col

\* C1: for two non-empty grids padded to R x C, an entry with row = r+1,
\* col = c+1 and both raw values is in the difference sequence if and only if
\* the two values at (r, c) differ and are not both absent/empty (no value);
\* a value on one side against no value on the other is always an entry.
C1_CellDifferenceIff ==
    AlignedDone =>
        \A r \in 0..(PaddedRows - 1), c \in 0..(PaddedCols - 1) :
            LET a == CellAt(df1, r, c)
                b == CellAt(df2, r, c)
                emitted == \E i \in DOMAIN Locs :
                              Locs[i] = [row |-> r + 1, col |-> c + 1,
                                         file1_value |-> a, file2_value |-> b]
            IN  /\ emitted <=> (a # b /\ ~(a = None /\ b = None))
                /\ EntryAt(r + 1, c + 1) => emitted
                /\ ((a = None) # (b = None)) => emitted

\* A 1x2 grid against a 2x1 grid: after padding, one position with equal
\* values, one present only in grid 1, one present only in grid 2, one absent
\* on both sides; exactly the two one-sided positions are entries.
C1_Witness ==
    /\ AlignedDone
    /\ df1 = << <<"x", "x">> >>
    /\ df2 = << <<"x">>, <<"">> >>
    /\ Len(Locs) = 2
    /\ Locs[1] = [row |-> 1, col |-> 2, file1_value |-> "x", file2_value |-> None]
    /\ Locs[2] = [row |-> 2, col |-> 1, file1_value |-> None, file2_value |-> ""]

\* C2: the Table Aligner never has an entry at a position where one side is
\* absent or None and the other side is None or the empty string.
C2_SymmetryOfEmptiness ==
    AlignedDone =>
        \A r \in 0..(PaddedRows - 1), c \in 0..(PaddedCols - 1) :
            LET a == CellAt(df1, r, c)
                b == CellAt(df2, r, c)
            IN  (\/ (a = None /\ b \in {None, ""})
                 \/ (b = None /\ a \in {None, ""}))
                => ~EntryAt(r + 1, c + 1)

\* C3: on two non-empty grids, identical is true exactly when the difference
\* sequence is empty, and differences is the length of that sequence.
C3_VerdictMatchesSequence ==
    AlignedDone =>
        /\ sheet_comp.identical <=> (Locs = <<>>)
        /\ sheet_comp.differences = PyInt(Len(Locs))

\* Two grids of one shape that differ in two cells: not identical, count 2.
C3_Witness ==
    /\ AlignedDone
    /\ Shape(df1) = Shape(df2)
    /\ ~sheet_comp.identical
    /\ sheet_comp.differences = PyInt(2)
    /\ Len(Locs) = 2

\* C4: the difference sequence is strictly increasing in (row, col)
\* lexicographic order, and every entry lies within 1..R x 1..C.
C4_RowMajorOrder ==
    AlignedDone =>
        /\ \A i \in DOMAIN Locs :
              /\ 1 <= Locs[i].row /\ Locs[i].row <= PaddedRows
              /\ 1 <= Locs[i].col /\ Locs[i].col <= PaddedCols
        /\ \A i \in 1..(Len(Locs) - 1) :
              \/ Locs[i].row < Locs[i + 1].row
              \/ (Locs[i].row = Locs[i + 1].row /\ Locs[i].col < Locs[i + 1].col)

\* Entries at (1,2) and then (2,1): the column decreases while the row grows.
C4_Witness ==
    /\ AlignedDone
    /\ Len(Locs) >= 2
    /\ \E i \in 1..(Len(Locs) - 1) :
          /\ Locs[i].row = 1 /\ Locs[i].col = 2
          /\ Locs[i + 1].row = 2 /\ Locs[i + 1].col = 1

\* C5: when exactly one grid has zero rows, the result is the qualitative
\* one: identical is false, differences is not a number, there is no
\* difference sequence, and file1_empty / file2_empty name the empty side,
\* exactly one of them true.
C5_OneSideEmpty ==
    (sheet_pc = "done" /\ ((Len(df1) = 0) # (Len(df2) = 0))) =>
        /\ sheet_comp.identical = FALSE
        /\ ~IsInt(sheet_comp.differences)
        /\ DOMAIN sheet_comp.details = {"file1_empty", "file2_empty"}
        /\ sheet_comp.details.file1_empty = (Len(df1) = 0)
        /\ sheet_comp.details.file2_empty = (Len(df2) = 0)
        /\ sheet_comp.details.file1_empty # sheet_comp.details.file2_empty

\* Grid 1 has 4 rows, grid 2 has none.
C5_Witness ==
    /\ sheet_pc = "done"
    /\ Len(df1) = 4
    /\ Len(df2) = 0
    /\ sheet_comp.details.file2_empty
    /\ ~sheet_comp.details.file1_empty

\* C6: when both grids are empty, the result is identical with zero
\* differences and no difference entries.
C6_BothEmpty ==
    (sheet_pc = "done" /\ Len(df1) = 0 /\ Len(df2) = 0) =>
        /\ sheet_comp.identical = TRUE
        /\ sheet_comp.differences = PyInt(0)
        /\ sheet_comp.details = EmptyDict

C6_Witness ==
    /\ sheet_pc = "done"
    /\ Len(df1) = 0
    /\ Len(df2) = 0
    /\ sheet_comp.identical

(***************************************************************************)
(* Formulas of a document (ExcelParser._extract_formulas)                  *)
(***************************************************************************)

\* workbook.sheetnames of both documents of the model
SheetNames == {"Sheet1", "Sheet2"}

\* Cell addresses (column letter + row number) that may hold a formula
Addresses == {"E2", "E3"}

\* Formula texts; the third differs from the first in letter case only.
FormulaTexts == {"=SUM(D2:D5)", "=SUM(D2:D6)", "=sum(d2:d5)"}

\* The formula cells of a workbook: (sheet, address) |-> cell.value for the
\* cells with data_type 'f'.
FormulaCells ==
    UNION {[cells -> FormulaTexts] :
             cells \in {c \in SUBSET (SheetNames \X Addresses) :
                          Cardinality(c) <= MaxFormulas}}

\* The per-sheet dict `formulas` built by the loop over the sheet's cells
SheetFormulas(wb, sheet_name) ==
    [cell_address \in {a \in Addresses : <<sheet_name, a>> \in DOMAIN wb} |->
        [formula |-> wb[<<sheet_name, cell_address>>],
         value   |-> wb[<<sheet_name, cell_address>>],
         sheet   |-> sheet_name]]

\* self.formulas after _extract_formulas: only sheets with a formula are keys.
ExtractFormulas(wb) ==
    [sheet_name \in {s \in SheetNames : DOMAIN SheetFormulas(wb, s) # {}} |->
        SheetFormulas(wb, sheet_name)]

(***************************************************************************)
(* ComparisonEngine._compare_formulas                                      *)
(***************************************************************************)

\* d.get(key, {})
DictGet(d, key) == IF key \in DOMAIN d THEN d[key] ELSE EmptyDict

\* all_sheets
AllSheets(f1, f2) == DOMAIN f1 \cup DOMAIN f2

\* cell_addresses1, cell_addresses2
CellAddresses(f, sheet_name) == DOMAIN DictGet(f, sheet_name)

\* added_cells
AddedCells(f1, f2, sheet_name) ==
    CellAddresses(f2, sheet_name) \ CellAddresses(f1, sheet_name)

\* All of side 1's addresses, the common ones included.
RemovedCellsNoSubtraction(f1, f2, sheet_name) ==
    CellAddresses(f1, sheet_name)

\* removed_cells
RemovedCells(f1, f2, sheet_name) ==
    CellAddresses(f1, sheet_name) \ CellAddresses(f2, sheet_name)

\* common_cells
CommonCells(f1, f2, sheet_name) ==
    CellAddresses(f1, sheet_name) \cap CellAddresses(f2, sheet_name)

\* str.upper() on the formula texts of the model
Upper(text) == IF text = "=sum(d2:d5)" THEN "=SUM(D2:D5)" ELSE text

\* A comparison that ignores letter case.
FormulaDiffersIgnoringCase(entry1, entry2) ==
    Upper(entry1.formula) # Upper(entry2.formula)

\* formula1 != formula2
FormulaDiffers(entry1, entry2) == entry1.formula # entry2.formula

\* modified_cells of one sheet
ModifiedCells(f1, f2, sheet_name) ==
    [cell \in {c \in CommonCells(f1, f2, sheet_name) :
                 FormulaDiffers(f1[sheet_name][c], f2[sheet_name][c])} |->
        [file1 |-> f1[sheet_name][cell], file2 |-> f2[sheet_name][cell]]]

\* identical_cells of one sheet
IdenticalCells(f1, f2, sheet_name) ==
    [cell \in {c \in CommonCells(f1, f2, sheet_name) :
                 ~FormulaDiffers(f1[sheet_name][c], f2[sheet_name][c])} |->
        f1[sheet_name][cell]]

\* comparison['added_formulas'] with a key for every sheet of all_sheets.
AddedFormulasUnguarded(f1, f2) ==
    [sheet_name \in AllSheets(f1, f2) |->
        [cell \in AddedCells(f1, f2, sheet_name) |-> f2[sheet_name][cell]]]

\* comparison['added_formulas']
AddedFormulas(f1, f2) ==
    [sheet_name \in {s \in AllSheets(f1, f2) : AddedCells(f1, f2, s) # {}} |->
        [cell \in AddedCells(f1, f2, sheet_name) |-> f2[sheet_name][cell]]]

\* comparison['removed_formulas']
RemovedFormulas(f1, f2) ==
    [sheet_name \in {s \in AllSheets(f1, f2) : RemovedCells(f1, f2, s) # {}} |->
        [cell \in RemovedCells(f1, f2, sheet_name) |-> f1[sheet_name][cell]]]

\* comparison['modified_formulas']
ModifiedFormulas(f1, f2) ==
    [sheet_name \in {s \in AllSheets(f1, f2) : DOMAIN ModifiedCells(f1, f2, s) # {}} |->
        ModifiedCells(f1, f2, sheet_name)]

\* comparison['identical_formulas']
IdenticalFormulas(f1, f2) ==
    [sheet_name \in {s \in AllSheets(f1, f2) : DOMAIN IdenticalCells(f1, f2, s) # {}} |->
        IdenticalCells(f1, f2, sheet_name)]

\* sum(len(formulas) for formulas in mapping.values()), over the keys `keys`
RECURSIVE SumLen(_, _)
SumLen(mapping, keys) ==
    IF keys = {} THEN 0
    ELSE LET k == CHOOSE x \in keys : TRUE
         IN  Cardinality(DOMAIN mapping[k]) + SumLen(mapping, keys \ {k})

\* len(mapping): the number of sheets, not of entries.
TotalCountingSheets(mapping) == Cardinality(DOMAIN mapping)

\* total_added, total_removed, total_modified, total_identical
Total(mapping) == SumLen(mapping, DOMAIN mapping)

\* comparison['summary']
FormulaSummary(added, removed, modified, identical) ==
    [total_added     |-> Total(added),
     total_removed   |-> Total(removed),
     total_modified  |-> Total(modified),
     total_identical |-> Total(identical),
     total_formulas  |-> Total(added) + Total(removed) + Total(modified) + Total(identical)]

\* _compare_formulas on the two documents' formulas
CompareFormulas(f1, f2) ==
    [added_formulas     |-> AddedFormulas(f1, f2),
     removed_formulas   |-> RemovedFormulas(f1, f2),
     modified_formulas  |-> ModifiedFormulas(f1, f2),
     identical_formulas |-> IdenticalFormulas(f1, f2),
     summary            |-> FormulaSummary(AddedFormulas(f1, f2), RemovedFormulas(f1, f2),
                                           ModifiedFormulas(f1, f2), IdenticalFormulas(f1, f2))]

(***************************************************************************)
(* The Formula Differ on its own: any two documents' formulas, one call.   *)
(***************************************************************************)

\* The Table Aligner is not part of this specification.
SheetIdle ==
    /\ df1 = <<>>
    /\ df2 = <<>>
    /\ sheet_comp = NoResult
    /\ sheet_pc = "idle"

FormulaInit ==
    /\ \E wb1 \in FormulaCells, wb2 \in FormulaCells :
          /\ formulas1 = ExtractFormulas(wb1)
          /\ formulas2 = ExtractFormulas(wb2)
    /\ formula_comp = NoResult
    /\ formula_pc = "start"
    /\ SheetIdle
    /\ VbaIdle
    /\ EngineIdle
    /\ GuiIdle

CompareFormulasCall ==
    /\ formula_pc = "start"
    /\ formula_comp' = CompareFormulas(formulas1, formulas2)
    /\ formula_pc' = "done"
    /\ UNCHANGED <<formulas1, formulas2, sheet_vars, vba_vars, engine_vars, gui_vars>>

FormulaNext == CompareFormulasCall

SpecFormulas == FormulaInit /\ [][FormulaNext]_vars

(***************************************************************************)
(* Properties of the Formula Differ (checked under SpecFormulas)           *)
(***************************************************************************)

FormulaDone == formula_pc = "done"

\* The addresses of sheet s with a formula in a document's formulas
AddrsOf(f, s) == IF s \in DOMAIN f THEN DOMAIN f[s] ELSE {}

\* The addresses a result mapping reports under sheet s
Reported(mapping, s) == IF s \in DOMAIN mapping THEN DOMAIN mapping[s] ELSE {}

\* The four mappings of the result
FourMappings ==
    {formula_comp.added_formulas, formula_comp.removed_formulas,
     formula_comp.modified_formulas, formula_comp.identical_formulas}

\* The number of entries of a mapping over all sheets
Entries(mapping) ==
    Cardinality({sa \in SheetNames \X Addresses : sa[2] \in Reported(mapping, sa[1])})

\* C7: for every sheet, the address sets under added, removed, modified and
\* identical are pairwise disjoint and their union is the union of the two
\* documents' formula address sets for that sheet.
C7_PartitionLaw ==
    FormulaDone =>
        \A s \in SheetNames :
            LET A == Reported(formula_comp.added_formulas, s)
                R == Reported(formula_comp.removed_formulas, s)
                M == Reported(formula_comp.modified_formulas, s)
                I == Reported(formula_comp.identical_formulas, s)
            IN  /\ A \cap R = {} /\ A \cap M = {} /\ A \cap I = {}
                /\ R \cap M = {} /\ R \cap I = {} /\ M \cap I = {}
                /\ A \cup R \cup M \cup I = AddrsOf(formulas1, s) \cup AddrsOf(formulas2, s)

\* One sheet with a removed and a common address, the other with an added one.
C7_Witness ==
    /\ FormulaDone
    /\ Reported(formula_comp.removed_formulas, "Sheet1") = {"E2"}
    /\ Reported(formula_comp.identical_formulas, "Sheet1") = {"E3"}
    /\ Reported(formula_comp.added_formulas, "Sheet2") = {"E2"}
    /\ AddrsOf(formulas1, "Sheet1") = {"E2", "E3"}

\* C8: an address only in document 2 is added with document 2's entry, only
\* in document 1 removed with document 1's entry; an address in both is
\* modified exactly when the two formula texts are unequal strings, carrying
\* both entries under file1 / file2, and identical otherwise, carrying one
\* entry; texts that differ (in letter case only, too) never compare equal.
C8_Classification ==
    FormulaDone =>
        \A s \in SheetNames, a \in Addresses :
            LET in1 == a \in AddrsOf(formulas1, s)
                in2 == a \in AddrsOf(formulas2, s)
                added     == formula_comp.added_formulas
                removed   == formula_comp.removed_formulas
                modified  == formula_comp.modified_formulas
                identical == formula_comp.identical_formulas
            IN  /\ (in2 /\ ~in1) =>
                      /\ a \in Reported(added, s)
                      /\ added[s][a] = formulas2[s][a]
                /\ (in1 /\ ~in2) =>
                      /\ a \in Reported(removed, s)
                      /\ removed[s][a] = formulas1[s][a]
                /\ (in1 /\ in2) =>
                      /\ a \in Reported(modified, s)
                            <=> formulas1[s][a].formula # formulas2[s][a].formula
                      /\ a \in Reported(identical, s)
                            <=> formulas1[s][a].formula = formulas2[s][a].formula
                      /\ a \in Reported(modified, s) =>
                            modified[s][a] = [file1 |-> formulas1[s][a],
                                              file2 |-> formulas2[s][a]]
                      /\ a \in Reported(identical, s) =>
                            /\ identical[s][a] = formulas1[s][a]
                            /\ identical[s][a] = formulas2[s][a]

\* Sheet1.E2 holds =SUM(D2:D5) in document 1 and =sum(d2:d5) in document 2
\* and is reported as modified; Sheet1.E3 is only in document 2.
C8_Witness ==
    /\ FormulaDone
    /\ "Sheet1" \in DOMAIN formulas1
    /\ "Sheet1" \in DOMAIN formulas2
    /\ "E2" \in DOMAIN formulas1["Sheet1"]
    /\ "E2" \in DOMAIN formulas2["Sheet1"]
    /\ formulas1["Sheet1"]["E2"].formula = "=SUM(D2:D5)"
    /\ formulas2["Sheet1"]["E2"].formula = "=sum(d2:d5)"
    /\ "E2" \in Reported(formula_comp.modified_formulas, "Sheet1")
    /\ "E3" \in Reported(formula_comp.added_formulas, "Sheet1")
    /\ formula_comp.summary.total_modified = 1

\* C9: each total is the number of entries of its category over all sheets,
\* and total_formulas is their sum, which is the number of distinct
\* (sheet, address) pairs with a formula in either document.
C9_Totals ==
    FormulaDone =>
        LET sm == formula_comp.summary
        IN  /\ sm.total_added = Entries(formula_comp.added_formulas)
            /\ sm.total_removed = Entries(formula_comp.removed_formulas)
            /\ sm.total_modified = Entries(formula_comp.modified_formulas)
            /\ sm.total_identical = Entries(formula_comp.identical_formulas)
            /\ sm.total_formulas =
                  sm.total_added + sm.total_removed + sm.total_modified + sm.total_identical
            /\ sm.total_formulas =
                  Cardinality({sa \in SheetNames \X Addresses :
                                 \/ sa[2] \in AddrsOf(formulas1, sa[1])
                                 \/ sa[2] \in AddrsOf(formulas2, sa[1])})

\* Two removed formulas in one sheet, one added and one modified in the other.
C9_Witness ==
    /\ FormulaDone
    /\ formula_comp.summary.total_removed = 2
    /\ Reported(formula_comp.removed_formulas, "Sheet1") = {"E2", "E3"}
    /\ formula_comp.summary.total_added = 1
    /\ formula_comp.summary.total_modified = 1
    /\ formula_comp.summary.total_formulas = 4

\* C10: a sheet name is a key of one of the four mappings only if it has an
\* entry there; a sheet without formulas on either side is a key of none.
C10_NoEmptySheetKeys ==
    FormulaDone =>
        /\ \A mapping \in FourMappings :
              \A s \in DOMAIN mapping : DOMAIN mapping[s] # {}
        /\ \A s \in SheetNames :
              (AddrsOf(formulas1, s) = {} /\ AddrsOf(formulas2, s) = {}) =>
                  \A mapping \in FourMappings : s \notin DOMAIN mapping

\* Sheet2 has formulas in neither document; Sheet1 has formulas only in
\* document 1, so it is a key of removed and of no other mapping.
C10_Witness ==
    /\ FormulaDone
    /\ AddrsOf(formulas1, "Sheet2") = {}
    /\ AddrsOf(formulas2, "Sheet2") = {}
    /\ DOMAIN formula_comp.removed_formulas = {"Sheet1"}
    /\ DOMAIN formula_comp.added_formulas = {}
    /\ DOMAIN formula_comp.modified_formulas = {}
    /\ DOMAIN formula_comp.identical_formulas = {}

(***************************************************************************)
(* VBAAnalyzer: the modules of a document's archive                        *)
(***************************************************************************)

\* An archive of the model holds at most MaxEntries module files.
MaxEntries == 2

\* Member names of an archive: the project file and module files, two of
\* them with one base name.
FileNames ==
    {"xl/vbaProject.bin", "xl/vba/Module1.bin", "xl/vba/sub/Module1.bin",
     "xl/vba/Module2.bin", "xl/vba/Module3.bin"}

\* 'vbaProject.bin' in f
IsVbaProjectFile(f) == f = "xl/vbaProject.bin"

\* 'xl/vba/' in file_name and file_name.endswith('.bin')
IsVbaModuleFile(file_name) ==
    file_name \in {"xl/vba/Module1.bin", "xl/vba/sub/Module1.bin",
                   "xl/vba/Module2.bin", "xl/vba/Module3.bin"}

\* os.path.basename(file_name).replace('.bin', '')
ModuleName(file_name) ==
    CASE file_name = "xl/vba/Module1.bin"     -> "Module1"
      [] file_name = "xl/vba/sub/Module1.bin" -> "Module1"
      [] file_name = "xl/vba/Module2.bin"     -> "Module2"
      [] file_name = "xl/vba/Module3.bin"     -> "Module3"
      [] OTHER                                -> "vbaProject"

\* Module contents, as byte strings.  The first and the third differ and
\* have one MD5 digest (a collision).
ModuleData == {<<1, 2>>, <<3>>, <<4, 5>>}

\* hashlib.md5(module_data).hexdigest()
Md5(module_data) ==
    CASE module_data = <<1, 2>> -> "d1"
      [] module_data = <<3>>    -> "d2"
      [] module_data = <<4, 5>> -> "d1"

\* d[key] = value
DictSet(d, key, value) ==
    [k \in DOMAIN d \cup {key} |-> IF k = key THEN value ELSE d[k]]

\* The loop over zip_file.namelist() that fills vba_data['modules'], entered
\* at entry i; an entry whose read() raises is skipped.
RECURSIVE ModulesLoop(_, _, _)
ModulesLoop(entries, i, modules) ==
    IF i > Len(entries) THEN modules
    ELSE LET file_name == entries[i].file_name
             module_data == entries[i].data
         IN  IF IsVbaModuleFile(file_name) /\ entries[i].readable
             THEN ModulesLoop(entries, i + 1,
                      DictSet(modules, ModuleName(file_name),
                              [data |-> module_data,
                               hash |-> Md5(module_data),
                               size |-> Len(module_data)]))
             ELSE ModulesLoop(entries, i + 1, modules)

\* _extract_vba_components on the members of an archive
ExtractVbaComponents(entries) ==
    [modules      |-> ModulesLoop(entries, 1, EmptyDict),
     procedures   |-> EmptyDict,
     functions    |-> EmptyDict,
     variables    |-> EmptyDict,
     project_info |-> IF \E i \in DOMAIN entries : IsVbaProjectFile(entries[i].file_name)
                      THEN [has_vba |-> TRUE]
                      ELSE EmptyDict]

\* analyze_vba_from_file: a file that zipfile cannot open yields {}.
AnalyzeVbaFromFile(file) ==
    IF file.is_zip THEN ExtractVbaComponents(file.entries) ELSE EmptyDict

\* list(a_set): the elements in one order, each once
RECURSIVE SetToList(_)
SetToList(S) ==
    IF S = {} THEN <<>>
    ELSE LET x == CHOOSE y \in S : TRUE
         IN  <<x>> \o SetToList(S \ {x})

\* keys1 & keys2 with equal module dicts (data, hash and size)
UnchangedModulesByDict(modules1, modules2) ==
    {key \in DOMAIN modules1 \cap DOMAIN modules2 :
        modules1[key] = modules2[key]}

\* keys1 & keys2 with equal hashes
UnchangedModules(modules1, modules2) ==
    {key \in DOMAIN modules1 \cap DOMAIN modules2 :
        modules1[key].hash = modules2[key].hash}

\* _compare_modules
CompareModules(modules1, modules2) ==
    LET keys1 == DOMAIN modules1
        keys2 == DOMAIN modules2
    IN  [added     |-> SetToList(keys2 \ keys1),
         removed   |-> SetToList(keys1 \ keys2),
         modified  |-> SetToList({key \in keys1 \cap keys2 :
                                    modules1[key].hash # modules2[key].hash}),
         unchanged |-> SetToList(UnchangedModules(modules1, modules2))]

\* _compare_procedures, _compare_functions, _compare_variables
EmptyComparison ==
    [added |-> <<>>, removed |-> <<>>, modified |-> <<>>, unchanged |-> <<>>]

\* comparison['summary'] of compare_vba_code
VbaSummary(modules, procedures, functions) ==
    [modules_added       |-> Len(modules.added),
     modules_removed     |-> Len(modules.removed),
     modules_modified    |-> Len(modules.modified),
     procedures_added    |-> Len(procedures.added),
     procedures_removed  |-> Len(procedures.removed),
     procedures_modified |-> Len(procedures.modified),
     functions_added     |-> Len(functions.added),
     functions_removed   |-> Len(functions.removed),
     functions_modified  |-> Len(functions.modified)]

\* compare_vba_code
CompareVbaCode(v1, v2) ==
    LET modules == CompareModules(DictGet(v1, "modules"), DictGet(v2, "modules"))
    IN  [modules    |-> modules,
         procedures |-> EmptyComparison,
         functions  |-> EmptyComparison,
         variables  |-> EmptyComparison,
         summary    |-> VbaSummary(modules, EmptyComparison, EmptyComparison)]

(***************************************************************************)
(* The Macro Differ on its own: any two archives, one call.                *)
(***************************************************************************)

\* The module files of an archive with their contents, in namelist order
ModuleEntries ==
    {e \in UNION {[1..n -> [file_name : FileNames \ {"xl/vbaProject.bin"},
                            data      : ModuleData,
                            readable  : BOOLEAN]] : n \in 0..MaxEntries} :
        /\ \A i, j \in DOMAIN e : i # j => e[i].file_name # e[j].file_name
        /\ \A i \in DOMAIN e : ~e[i].readable => e[i].data = <<3>>}

\* The files handed to the analyzer: archives without and with a project
\* file in front of the module files, and one file that is no archive.
VbaFiles ==
    {[is_zip |-> FALSE, entries |-> <<>>]} \cup
    {[is_zip |-> TRUE, entries |-> e] : e \in ModuleEntries} \cup
    {[is_zip  |-> TRUE,
      entries |-> <<[file_name |-> "xl/vbaProject.bin", data |-> <<3>>,
                     readable |-> TRUE]>> \o e] : e \in ModuleEntries}

\* What the analyzer returns for the files of the model
VbaData == {AnalyzeVbaFromFile(file) : file \in VbaFiles}

VbaInit ==
    /\ vba1 \in VbaData
    /\ vba2 \in VbaData
    /\ vba_comp = NoResult
    /\ vba_pc = "start"
    /\ SheetIdle
    /\ FormulaIdle
    /\ EngineIdle
    /\ GuiIdle

CompareVbaCodeCall ==
    /\ vba_pc = "start"
    /\ vba_comp' = CompareVbaCode(vba1, vba2)
    /\ vba_pc' = "done"
    /\ UNCHANGED <<vba1, vba2, sheet_vars, formula_vars, engine_vars, gui_vars>>

VbaNext == CompareVbaCodeCall

SpecVba == VbaInit /\ [][VbaNext]_vars

(***************************************************************************)
(* Properties of the Macro Differ (checked under SpecVba)                  *)
(***************************************************************************)

\* The elements of a list
ListSet(l) == {l[i] : i \in DOMAIN l}

\* No element is in the list twice.
NoDuplicates(l) == \A i, j \in DOMAIN l : i # j => l[i] # l[j]

\* The modules the analyzer found in document 1 and in document 2
Modules1 == IF "modules" \in DOMAIN vba1 THEN vba1.modules ELSE EmptyDict

Modules2 == IF "modules" \in DOMAIN vba2 THEN vba2.modules ELSE EmptyDict

\* C11: module names only in document 2 are added, only in document 1
\* removed, names in both are modified if the hashes differ and unchanged if
\* they are equal; the four lists are pairwise disjoint and cover exactly the
\* union of both documents' module names; two same-named modules with
\* identical bytes are unchanged.
C11_MacroDiffer ==
    vba_pc = "done" =>
        LET names1 == DOMAIN Modules1
            names2 == DOMAIN Modules2
            m == vba_comp.modules
            A == ListSet(m.added)
            R == ListSet(m.removed)
            M == ListSet(m.modified)
            U == ListSet(m.unchanged)
        IN  /\ A = names2 \ names1
            /\ R = names1 \ names2
            /\ M = {n \in names1 \cap names2 : Modules1[n].hash # Modules2[n].hash}
            /\ U = {n \in names1 \cap names2 : Modules1[n].hash = Modules2[n].hash}
            /\ A \cap R = {} /\ A \cap M = {} /\ A \cap U = {}
            /\ R \cap M = {} /\ R \cap U = {} /\ M \cap U = {}
            /\ A \cup R \cup M \cup U = names1 \cup names2
            /\ NoDuplicates(m.added) /\ NoDuplicates(m.removed)
            /\ NoDuplicates(m.modified) /\ NoDuplicates(m.unchanged)
            /\ \A n \in names1 \cap names2 :
                  Modules1[n].data = Modules2[n].data => n \in U

\* Module1 has the same bytes on both sides, Module2 is only in document 1,
\* Module3 only in document 2.
C11_Witness ==
    /\ vba_pc = "done"
    /\ DOMAIN Modules1 = {"Module1", "Module2"}
    /\ DOMAIN Modules2 = {"Module1", "Module3"}
    /\ Modules1["Module1"].data = Modules2["Module1"].data
    /\ vba_comp.modules.unchanged = <<"Module1">>
    /\ vba_comp.modules.removed = <<"Module2">>
    /\ vba_comp.modules.added = <<"Module3">>
    /\ vba_comp.modules.modified = <<>>

(***************************************************************************)
(* ExcelParser (excel_parser.py)                                           *)
(*                                                                         *)
(* A file of the file system is a record: is_zip and entries as the        *)
(* analyzer sees them, and workbook, which is PyNone when openpyxl cannot  *)
(* load the file and otherwise holds sheetnames (a list), sheets (name to  *)
(* the rows of the worksheet; <<>> is a worksheet without cells) and       *)
(* properties.  A path outside the DOMAIN of the file system is a missing  *)
(* file.  Property values are PyStr(..) or PyNone.                         *)
(***************************************************************************)

\* openpyxl.utils.get_column_letter, for the columns of the model
GetColumnLetter(column) ==
    CASE column = 1 -> "A"
      [] column = 2 -> "B"
      [] column = 3 -> "C"

\* f"{get_column_letter(cell.column)}{cell.row}"
CellAddress(row, column) == GetColumnLetter(column) \o ToString(row)

\* cell.value is not None and cell.data_type == 'f'
IsFormulaCell(value) == value \in FormulaTexts

\* ExcelParser.__init__
NewParser(file_path) ==
    [file_path  |-> file_path,
     workbook   |-> PyNone,
     vba_code   |-> EmptyDict,
     formulas   |-> EmptyDict,
     sheet_data |-> EmptyDict]

\* openpyxl.load_workbook does not raise.
CanLoad(fs, file_path) ==
    /\ file_path \in DOMAIN fs
    /\ fs[file_path].workbook # PyNone

\* _extract_sheet_data: one DataFrame per sheet, made of the rows of the
\* worksheet.
ExtractSheetData(workbook) ==
    [sheet_name \in ListSet(workbook.sheetnames) |-> workbook.sheets[sheet_name]]

\* The cells of a worksheet that hold a formula, as <<row, column>>
FormulaPositions(sheet) ==
    {pos \in (1..NumRows(sheet)) \X (1..NumCols(sheet)) :
        IsFormulaCell(sheet[pos[1]][pos[2]])}

\* The inner loop of _extract_formulas: the formulas of one worksheet
WorksheetFormulas(sheet_name, sheet) ==
    LET cells == FormulaPositions(sheet)
    IN  [cell_address \in {CellAddress(pos[1], pos[2]) : pos \in cells} |->
            LET cell == CHOOSE pos \in cells :
                            CellAddress(pos[1], pos[2]) = cell_address
            IN  [formula |-> sheet[cell[1]][cell[2]],
                 value   |-> sheet[cell[1]][cell[2]],
                 sheet   |-> sheet_name]]

\* _extract_formulas on the loaded workbook: only sheets with formulas get
\* an entry.
WorkbookFormulas(workbook) ==
    [sheet_name \in {s \in ListSet(workbook.sheetnames) :
                        FormulaPositions(workbook.sheets[s]) # {}} |->
        WorksheetFormulas(sheet_name, workbook.sheets[sheet_name])]

\* The module loop of _extract_vba_code
RECURSIVE VbaCodeLoop(_, _, _)
VbaCodeLoop(entries, i, vba_code) ==
    IF i > Len(entries) THEN vba_code
    ELSE LET e == entries[i]
         IN  IF IsVbaModuleFile(e.file_name) /\ e.readable
             THEN VbaCodeLoop(entries, i + 1,
                              DictSet(vba_code, ModuleName(e.file_name), e.data))
             ELSE VbaCodeLoop(entries, i + 1, vba_code)

\* _extract_vba_code: the project file, if any, then the module files
ExtractVbaCode(file) ==
    IF ~file.is_zip THEN EmptyDict
    ELSE LET vba_files == SelectSeq(file.entries,
                                    LAMBDA e : IsVbaProjectFile(e.file_name))
         IN  VbaCodeLoop(file.entries, 1,
                         IF vba_files # <<>>
                         THEN DictSet(EmptyDict, "vba_project", vba_files[1].data)
                         ELSE EmptyDict)

\* What load_workbook returns
LoadWorkbookReturn(parser, fs) == CanLoad(fs, parser.file_path)

\* The parser after load_workbook: untouched when openpyxl raises
LoadWorkbook(parser, fs) ==
    IF ~CanLoad(fs, parser.file_path) THEN parser
    ELSE LET file == fs[parser.file_path]
         IN  [parser EXCEPT !.workbook   = file.workbook,
                            !.sheet_data = ExtractSheetData(file.workbook),
                            !.formulas   = WorkbookFormulas(file.workbook),
                            !.vba_code   = ExtractVbaCode(file)]

\* get_sheet_names
GetSheetNames(parser) ==
    IF parser.workbook # PyNone THEN parser.workbook.sheetnames ELSE <<>>

\* get_sheet_data: an empty DataFrame for a sheet the parser has no data of
GetSheetData(parser, sheet_name) == DictGet(parser.sheet_data, sheet_name)

\* get_formulas()
GetFormulas(parser) == parser.formulas

\* get_workbook_properties
GetWorkbookProperties(parser) ==
    IF parser.workbook = PyNone THEN EmptyDict
    ELSE [title            |-> parser.workbook.properties.title,
          subject          |-> parser.workbook.properties.subject,
          creator          |-> parser.workbook.properties.creator,
          created          |-> parser.workbook.properties.created,
          modified         |-> parser.workbook.properties.modified,
          last_modified_by |-> parser.workbook.properties.lastModifiedBy,
          sheets_count     |-> PyInt(Len(parser.workbook.sheetnames))]

(***************************************************************************)
(* ComparisonEngine (comparison_engine.py)                                 *)
(***************************************************************************)

\* key_props with the two dates added
KeyPropsWithDates ==
    <<"title", "subject", "creator", "created", "modified", "last_modified_by",
      "sheets_count">>

\* key_props
KeyProps == <<"title", "subject", "creator", "last_modified_by", "sheets_count">>

\* props.get(prop)
PropGet(props, prop) == IF prop \in DOMAIN props THEN props[prop] ELSE PyNone

\* A comparison in which None is unequal to everything, itself included
PropDiffersNoneUnequal(value1, value2) ==
    value1 = PyNone \/ value2 = PyNone \/ value1 # value2

\* props1.get(prop) != props2.get(prop)
PropDiffers(value1, value2) == value1 # value2

\* The loop over key_props, entered at property i
RECURSIVE PropsLoop(_, _, _, _)
PropsLoop(props1, props2, i, comparison) ==
    IF i > Len(KeyProps) THEN comparison
    ELSE LET prop == KeyProps[i]
         IN  IF PropDiffers(PropGet(props1, prop), PropGet(props2, prop))
             THEN PropsLoop(props1, props2, i + 1,
                      [comparison EXCEPT
                          !.identical = FALSE,
                          !.differences =
                              DictSet(@, prop, [file1 |-> PropGet(props1, prop),
                                                file2 |-> PropGet(props2, prop)])])
             ELSE PropsLoop(props1, props2, i + 1, comparison)

\* _compare_workbook_properties
CompareWorkbookProperties(p1, p2) ==
    LET props1 == GetWorkbookProperties(p1)
        props2 == GetWorkbookProperties(p2)
    IN  PropsLoop(props1, props2, 1,
                  [identical   |-> TRUE,
                   differences |-> EmptyDict,
                   file1       |-> props1,
                   file2       |-> props2])

\* _compare_sheets that never reports a removed sheet
CompareSheetsNoRemoved(p1, p2) ==
    LET sheets1       == ListSet(GetSheetNames(p1))
        sheets2       == ListSet(GetSheetNames(p2))
        common_sheets == SetToList(sheets1 \cap sheets2)
    IN  [added_sheets      |-> SetToList(sheets2 \ sheets1),
         removed_sheets    |-> <<>>,
         common_sheets     |-> common_sheets,
         sheet_comparisons |->
             [sheet_name \in ListSet(common_sheets) |->
                 CompareSingleSheet(GetSheetData(p1, sheet_name),
                                    GetSheetData(p2, sheet_name))]]

\* _compare_sheets with one _compare_single_sheet per sheet of either file.
CompareSheetsAllNames(p1, p2) ==
    LET sheets1       == ListSet(GetSheetNames(p1))
        sheets2       == ListSet(GetSheetNames(p2))
    IN  [added_sheets      |-> SetToList(sheets2 \ sheets1),
         removed_sheets    |-> SetToList(sheets1 \ sheets2),
         common_sheets     |-> SetToList(sheets1 \cap sheets2),
         sheet_comparisons |->
             [sheet_name \in sheets1 \cup sheets2 |->
                 CompareSingleSheet(GetSheetData(p1, sheet_name),
                                    GetSheetData(p2, sheet_name))]]

\* _compare_sheets: the sheet names as sets, and one _compare_single_sheet
\* per common sheet
CompareSheets(p1, p2) ==
    LET sheets1       == ListSet(GetSheetNames(p1))
        sheets2       == ListSet(GetSheetNames(p2))
        common_sheets == SetToList(sheets1 \cap sheets2)
    IN  [added_sheets      |-> SetToList(sheets2 \ sheets1),
         removed_sheets    |-> SetToList(sheets1 \ sheets2),
         common_sheets     |-> common_sheets,
         sheet_comparisons |->
             [sheet_name \in ListSet(common_sheets) |->
                 CompareSingleSheet(GetSheetData(p1, sheet_name),
                                    GetSheetData(p2, sheet_name))]]

\* _compare_vba_code that compares nothing when one analysis gave no data
CompareVbaAllOrNothing(p1, p2, fs) ==
    LET ReadFile(file_path) == IF file_path \in DOMAIN fs THEN fs[file_path]
                               ELSE [is_zip |-> FALSE]
        v1 == AnalyzeVbaFromFile(ReadFile(p1.file_path))
        v2 == AnalyzeVbaFromFile(ReadFile(p2.file_path))
    IN  IF v1 = EmptyDict \/ v2 = EmptyDict
        THEN CompareVbaCode(EmptyDict, EmptyDict)
        ELSE CompareVbaCode(v1, v2)

\* _compare_vba_code: the analyzer reads both files again by their paths.
CompareVba(p1, p2, fs) ==
    LET ReadFile(file_path) == IF file_path \in DOMAIN fs THEN fs[file_path]
                               ELSE [is_zip |-> FALSE]
    IN  CompareVbaCode(AnalyzeVbaFromFile(ReadFile(p1.file_path)),
                       AnalyzeVbaFromFile(ReadFile(p2.file_path)))

\* One per sheet that is not identical, whatever its count
SheetCompDiffsOnePerSheet(comp) == IF ~comp.identical THEN 1 ELSE 0

\* What one sheet comparison adds to sheet_diffs
SheetCompDiffs(comp) ==
    IF ~comp.identical
    THEN IF IsInt(comp.differences) THEN comp.differences.int ELSE 1
    ELSE 0

\* The loop over sheet_comparisons.values()
RECURSIVE SheetDiffsLoop(_, _, _)
SheetDiffsLoop(sheet_comparisons, names, sheet_diffs) ==
    IF names = <<>> THEN sheet_diffs
    ELSE SheetDiffsLoop(sheet_comparisons, Tail(names),
                        sheet_diffs + SheetCompDiffs(sheet_comparisons[Head(names)]))

\* sheet_diffs
SheetDiffs(sheets) ==
    SheetDiffsLoop(sheets.sheet_comparisons,
                   SetToList(DOMAIN sheets.sheet_comparisons),
                   Len(sheets.added_sheets) + Len(sheets.removed_sheets))

\* formula_diffs
FormulaDiffs(formulas) ==
    formulas.summary.total_added + formulas.summary.total_removed
        + formulas.summary.total_modified

\* vba_diffs
VbaDiffs(vba_code) ==
    vba_code.summary.modules_added + vba_code.summary.modules_removed
        + vba_code.summary.modules_modified

\* files_identical without the workbook_properties flag
FilesIdenticalIgnoringProperties(results) ==
    /\ Len(results.sheets.added_sheets) = 0
    /\ Len(results.sheets.removed_sheets) = 0
    /\ results.formulas.summary.total_added = 0
    /\ results.formulas.summary.total_removed = 0
    /\ results.formulas.summary.total_modified = 0
    /\ results.vba_code.summary.modules_added = 0
    /\ results.vba_code.summary.modules_removed = 0
    /\ results.vba_code.summary.modules_modified = 0

\* summary['files_identical']
FilesIdentical(results) ==
    LET sheets_identical ==
            /\ Len(results.sheets.added_sheets) = 0
            /\ Len(results.sheets.removed_sheets) = 0
        formulas_identical ==
            /\ results.formulas.summary.total_added = 0
            /\ results.formulas.summary.total_removed = 0
            /\ results.formulas.summary.total_modified = 0
        vba_identical ==
            /\ results.vba_code.summary.modules_added = 0
            /\ results.vba_code.summary.modules_removed = 0
            /\ results.vba_code.summary.modules_modified = 0
    IN  /\ sheets_identical
        /\ formulas_identical
        /\ vba_identical
        /\ results.workbook_properties.identical

\* summary['total_differences']
TotalDifferences(sheet_diffs, formula_diffs, vba_diffs) ==
    sheet_diffs + formula_diffs + vba_diffs

\* The recommendations with the formula hint in front
RecommendationsFormulasFirst(sheet_diffs, formula_diffs, vba_diffs) ==
    (IF formula_diffs > 0 THEN <<"Check formula changes for accuracy">> ELSE <<>>)
    \o (IF sheet_diffs > 0 THEN <<"Review sheet structure differences">> ELSE <<>>)
    \o (IF vba_diffs > 0 THEN <<"Verify VBA code modifications">> ELSE <<>>)

\* summary['recommendations']
Recommendations(sheet_diffs, formula_diffs, vba_diffs) ==
    (IF sheet_diffs > 0 THEN <<"Review sheet structure differences">> ELSE <<>>)
    \o (IF formula_diffs > 0 THEN <<"Check formula changes for accuracy">> ELSE <<>>)
    \o (IF vba_diffs > 0 THEN <<"Verify VBA code modifications">> ELSE <<>>)

\* _generate_summary
GenerateSummary(results) ==
    LET sheet_diffs   == SheetDiffs(results.sheets)
        formula_diffs == FormulaDiffs(results.formulas)
        vba_diffs     == VbaDiffs(results.vba_code)
    IN  [files_identical     |-> FilesIdentical(results),
         total_differences   |-> TotalDifferences(sheet_diffs, formula_diffs, vba_diffs),
         differences_by_type |->
             [sheets     |-> sheet_diffs,
              formulas   |-> formula_diffs,
              vba_code   |-> vba_diffs,
              properties |-> Cardinality(DOMAIN results.workbook_properties.differences)],
         recommendations     |-> Recommendations(sheet_diffs, formula_diffs, vba_diffs)]

\* The body of compare_all after its guard: the four comparisons, then the
\* summary computed from them
CompareAllResults(p1, p2, fs) ==
    LET results == [workbook_properties |-> CompareWorkbookProperties(p1, p2),
                    sheets              |-> CompareSheets(p1, p2),
                    formulas            |-> CompareFormulas(GetFormulas(p1), GetFormulas(p2)),
                    vba_code            |-> CompareVba(p1, p2, fs),
                    summary             |-> EmptyDict]
    IN  [results EXCEPT !.summary = GenerateSummary(results)]

\* not self.parser1 or not self.parser2
ParsersMissing(p1, p2) == p1 = PyNone \/ p2 = PyNone

\* compare_all without its guard: a parser that was never created counts as
\* one that has not loaded anything.
CompareAllOnNewParsers(p1, p2, fs, results) ==
    LET q1 == IF p1 = PyNone THEN NewParser("") ELSE p1
        q2 == IF p2 = PyNone THEN NewParser("") ELSE p2
    IN  [ret                |-> CompareAllResults(q1, q2, fs),
         comparison_results |-> CompareAllResults(q1, q2, fs)]

\* compare_all that computes a result only when none is stored
CompareAllKeepingResults(p1, p2, fs, results) ==
    IF ParsersMissing(p1, p2)
    THEN [ret |-> EmptyDict, comparison_results |-> results]
    ELSE IF results # EmptyDict
         THEN [ret |-> results, comparison_results |-> results]
         ELSE [ret                |-> CompareAllResults(p1, p2, fs),
               comparison_results |-> CompareAllResults(p1, p2, fs)]

\* compare_all on an engine with these parsers and these earlier results:
\* what it returns and what comparison_results is afterwards
CompareAll(p1, p2, fs, results) ==
    IF ParsersMissing(p1, p2)
    THEN [ret |-> EmptyDict, comparison_results |-> results]
    ELSE [ret                |-> CompareAllResults(p1, p2, fs),
          comparison_results |-> CompareAllResults(p1, p2, fs)]

\* load_files: both parsers are replaced before the first one loads, and the
\* second one loads only if the first one did.
LoadFiles(file1_path, file2_path) ==
    LET new1 == NewParser(file1_path)
        new2 == NewParser(file2_path)
        ok1  == LoadWorkbookReturn(new1, files)
        ok2  == LoadWorkbookReturn(new2, files)
    IN  /\ parser1' = LoadWorkbook(new1, files)
        /\ parser2' = IF ok1 THEN LoadWorkbook(new2, files) ELSE new2
        /\ last_load' = [ret |-> ok1 /\ ok2]
        /\ last_call' = [op |-> "load_files", ret |-> PyBool(ok1 /\ ok2)]
        /\ prev_call' = last_call
        /\ UNCHANGED <<files, comparison_results, compared_paths,
                       sheet_vars, formula_vars, vba_vars>>

\* compare_all that leaves both parsers as new, unloaded parsers
CompareAllCallResettingParsers ==
    LET call == CompareAll(parser1, parser2, files, comparison_results)
    IN  /\ comparison_results' = call.comparison_results
        /\ last_call' = [op |-> "compare_all", ret |-> call.ret]
        /\ prev_call' = last_call
        /\ compared_paths' = IF ParsersMissing(parser1, parser2) THEN compared_paths
                             ELSE <<parser1.file_path, parser2.file_path>>
        /\ parser1' = IF parser1 = PyNone THEN parser1 ELSE NewParser(parser1.file_path)
        /\ parser2' = IF parser2 = PyNone THEN parser2 ELSE NewParser(parser2.file_path)
        /\ UNCHANGED <<files, last_load, sheet_vars, formula_vars, vba_vars>>

\* compare_all
CompareAllCall ==
    LET call == CompareAll(parser1, parser2, files, comparison_results)
    IN  /\ comparison_results' = call.comparison_results
        /\ last_call' = [op |-> "compare_all", ret |-> call.ret]
        /\ prev_call' = last_call
        /\ compared_paths' = IF ParsersMissing(parser1, parser2) THEN compared_paths
                             ELSE <<parser1.file_path, parser2.file_path>>
        /\ UNCHANGED <<files, parser1, parser2, last_load,
                       sheet_vars, formula_vars, vba_vars>>

\* if sheet_name:
Truthy(sheet_name) == sheet_name # None /\ sheet_name # ""

\* get_detailed_differences that answers with the whole result for a sheet
\* it has no comparison of
GetDetailedDifferencesWholeByDefault(results, sheet_name) ==
    IF results = EmptyDict THEN EmptyDict
    ELSE IF Truthy(sheet_name)
              /\ sheet_name \in DOMAIN results.sheets.sheet_comparisons
         THEN results.sheets.sheet_comparisons[sheet_name]
         ELSE results

\* get_detailed_differences on an engine with these stored results
GetDetailedDifferences(results, sheet_name) ==
    IF results = EmptyDict THEN EmptyDict
    ELSE IF Truthy(sheet_name)
         THEN DictGet(results.sheets.sheet_comparisons, sheet_name)
         ELSE results

\* The sheet_name arguments of the model: none, the empty string, the sheet
\* names of the files and a name no file has
SheetNameArgs == {None, "", "Sheet1", "Sheet2", "Other"}

\* get_detailed_differences(sheet_name)
GetDetailedDifferencesCall ==
    \E sheet_name \in SheetNameArgs :
        /\ last_call' = [op   |-> "get_detailed_differences",
                         args |-> sheet_name,
                         ret  |-> GetDetailedDifferences(comparison_results, sheet_name)]
        /\ prev_call' = last_call
        /\ UNCHANGED <<files, parser1, parser2, comparison_results, last_load,
                       compared_paths, sheet_vars, formula_vars, vba_vars>>

\* What pd.Timestamp.now().isoformat() can give
Timestamps == {"2024-01-01T09:00:00", "2024-01-01T09:00:01"}

\* export_comparison_data on an engine in this state, at this time
ExportComparisonData(p1, p2, results, now) ==
    [metadata |-> [file1 |-> IF p1 # PyNone THEN p1.file_path ELSE None,
                   file2 |-> IF p2 # PyNone THEN p2.file_path ELSE None,
                   comparison_timestamp |-> now],
     results  |-> results]

\* export_comparison_data()
ExportComparisonDataCall ==
    \E now \in Timestamps :
        /\ last_call' = [op  |-> "export_comparison_data",
                         ret |-> ExportComparisonData(parser1, parser2,
                                                      comparison_results, now)]
        /\ prev_call' = last_call
        /\ UNCHANGED <<files, parser1, parser2, comparison_results, last_load,
                       compared_paths, sheet_vars, formula_vars, vba_vars>>

\* Another process deletes a file.
RemoveFile(file_path) ==
    /\ file_path \in DOMAIN files
    /\ files' = [f \in DOMAIN files \ {file_path} |-> files[f]]
    /\ UNCHANGED <<parser1, parser2, comparison_results, last_load, last_call,
                   prev_call, compared_paths, sheet_vars, formula_vars, vba_vars>>

(***************************************************************************)
(* compare_all on its own: two loaded documents, one call.                 *)
(***************************************************************************)

Paths == {"a.xlsx", "b.xlsx"}

\* Document properties: the second differs from the first only in created and
\* modified, the third also in title and lastModifiedBy.
DocProperties ==
    {[title |-> PyNone, subject |-> PyNone, creator |-> PyStr("openpyxl"),
      created |-> PyStr("2024-01-01"), modified |-> PyStr("2024-01-01"),
      lastModifiedBy |-> PyNone],
     [title |-> PyNone, subject |-> PyNone, creator |-> PyStr("openpyxl"),
      created |-> PyStr("2024-06-01"), modified |-> PyStr("2024-06-02"),
      lastModifiedBy |-> PyNone],
     [title |-> PyStr("Budget"), subject |-> PyNone, creator |-> PyStr("openpyxl"),
      created |-> PyStr("2024-01-01"), modified |-> PyStr("2024-01-01"),
      lastModifiedBy |-> PyStr("kc")]}

\* The rows of the first worksheet: no cells, or a value and a formula
FirstSheetRows ==
    {<<>>,
     <<<<"x", "=SUM(D2:D5)">>>>,
     <<<<"x", "=SUM(D2:D6)">>>>,
     <<<<"", "=SUM(D2:D5)">>, <<"x", None>>>>}

\* The worksheets after the first one
OtherSheets ==
    {<<>>,
     <<[name |-> "Sheet2", rows |-> <<<<"x">>>>]>>,
     <<[name |-> "Sheet2", rows |-> <<>>]>>,
     <<[name |-> "Sheet3", rows |-> <<<<"=SUM(D2:D5)">>>>]>>,
     <<[name |-> "Sheet2", rows |-> <<<<"x">>>>],
       [name |-> "Sheet3", rows |-> <<<<"=SUM(D2:D5)">>>>]>>}

\* The archive entries: no macros, one module, two modules
DocEntries ==
    {<<>>,
     <<[file_name |-> "xl/vbaProject.bin", data |-> <<3>>, readable |-> TRUE],
       [file_name |-> "xl/vba/Module1.bin", data |-> <<1, 2>>, readable |-> TRUE]>>,
     <<[file_name |-> "xl/vbaProject.bin", data |-> <<3>>, readable |-> TRUE],
       [file_name |-> "xl/vba/Module1.bin", data |-> <<3>>, readable |-> TRUE],
       [file_name |-> "xl/vba/Module2.bin", data |-> <<1, 2>>, readable |-> TRUE]>>}

\* A workbook file with these worksheets, properties and archive entries
Document(worksheets, properties, entries) ==
    [is_zip   |-> TRUE,
     entries  |-> entries,
     workbook |->
         [sheetnames |-> [i \in DOMAIN worksheets |-> worksheets[i].name],
          sheets     |-> [sheet_name \in {worksheets[i].name : i \in DOMAIN worksheets} |->
                             LET i == CHOOSE j \in DOMAIN worksheets :
                                          worksheets[j].name = sheet_name
                             IN  worksheets[i].rows],
          properties |-> properties]]

\* The workbook files of the model
Documents ==
    {Document(<<[name |-> "Sheet1", rows |-> first]>> \o others, properties, entries) :
        first \in FirstSheetRows, others \in OtherSheets,
        properties \in DocProperties, entries \in DocEntries}

\* After load_files("a.xlsx", p2) returned True, for any two workbook files
\* and for one file loaded on both sides
CompareInit ==
    /\ \E p2 \in Paths :
          /\ files \in [{"a.xlsx", p2} -> Documents]
          /\ parser1 = LoadWorkbook(NewParser("a.xlsx"), files)
          /\ parser2 = LoadWorkbook(NewParser(p2), files)
    /\ comparison_results = EmptyDict
    /\ last_load = [ret |-> TRUE]
    /\ last_call = [op |-> "load_files", ret |-> PyBool(TRUE)]
    /\ prev_call = PyNone
    /\ compared_paths = PyNone
    /\ SheetIdle
    /\ FormulaIdle
    /\ VbaIdle
    /\ GuiIdle

CompareNext ==
    /\ last_call.op = "load_files"
    /\ CompareAllCall
    /\ UNCHANGED gui_vars

SpecCompare == CompareInit /\ [][CompareNext]_vars

(***************************************************************************)
(* Properties of compare_all (checked under SpecCompare)                   *)
(***************************************************************************)

\* compare_all has returned a comparison result.
CompareDone == last_call.op = "compare_all" /\ last_call.ret # EmptyDict

\* The two workbooks as they are in the files
Workbook1 == files[parser1.file_path].workbook

Workbook2 == files[parser2.file_path].workbook

\* C12: added_sheets is exactly the names in document 2 but not in document
\* 1, removed_sheets exactly the names in document 1 but not in document 2,
\* common_sheets exactly the names in both; the three are pairwise disjoint;
\* sheet_comparisons has exactly the common sheets as keys, each with the
\* Table Aligner's result for the two worksheets of that name.
C12_SheetSetDiffer ==
    CompareDone =>
        LET names1 == ListSet(Workbook1.sheetnames)
            names2 == ListSet(Workbook2.sheetnames)
            sh     == last_call.ret.sheets
            A      == ListSet(sh.added_sheets)
            R      == ListSet(sh.removed_sheets)
            C      == ListSet(sh.common_sheets)
        IN  /\ A = names2 \ names1
            /\ R = names1 \ names2
            /\ C = names1 \cap names2
            /\ A \cap R = {} /\ A \cap C = {} /\ R \cap C = {}
            /\ NoDuplicates(sh.added_sheets)
            /\ NoDuplicates(sh.removed_sheets)
            /\ NoDuplicates(sh.common_sheets)
            /\ DOMAIN sh.sheet_comparisons = C
            /\ \A n \in C :
                  sh.sheet_comparisons[n] =
                      CompareSingleSheet(Workbook1.sheets[n], Workbook2.sheets[n])

\* Document 1 has Sheet1 and Sheet2, document 2 has Sheet1, Sheet2 and Sheet3.
C12_Witness ==
    /\ CompareDone
    /\ Workbook1.sheetnames = <<"Sheet1", "Sheet2">>
    /\ Workbook2.sheetnames = <<"Sheet1", "Sheet2", "Sheet3">>
    /\ last_call.ret.sheets.added_sheets = <<"Sheet3">>
    /\ last_call.ret.sheets.removed_sheets = <<>>
    /\ ListSet(last_call.ret.sheets.common_sheets) = {"Sheet1", "Sheet2"}
    /\ DOMAIN last_call.ret.sheets.sheet_comparisons = {"Sheet1", "Sheet2"}

\* The summary of the result compare_all returned
Summary == last_call.ret.summary

\* C15: files_identical is true if and only if added_sheets and
\* removed_sheets are both empty, the formula totals added, removed and
\* modified are all zero, the macro module totals added, removed and modified
\* are all zero, and the workbook-metadata identical flag is true.
C15_FilesIdenticalIff ==
    CompareDone =>
        LET r == last_call.ret
        IN  Summary.files_identical <=>
                /\ r.sheets.added_sheets = <<>>
                /\ r.sheets.removed_sheets = <<>>
                /\ r.formulas.summary.total_added = 0
                /\ r.formulas.summary.total_removed = 0
                /\ r.formulas.summary.total_modified = 0
                /\ r.vba_code.summary.modules_added = 0
                /\ r.vba_code.summary.modules_removed = 0
                /\ r.vba_code.summary.modules_modified = 0
                /\ r.workbook_properties.identical

\* Two files that differ in nothing but their metadata: only the metadata
\* flag makes the verdict false.
C15_Witness ==
    /\ CompareDone
    /\ ~Summary.files_identical
    /\ ~last_call.ret.workbook_properties.identical
    /\ last_call.ret.sheets.added_sheets = <<>>
    /\ last_call.ret.sheets.removed_sheets = <<>>
    /\ last_call.ret.formulas.summary.total_added = 0
    /\ last_call.ret.formulas.summary.total_removed = 0
    /\ last_call.ret.formulas.summary.total_modified = 0
    /\ last_call.ret.vba_code.summary.modules_added = 0
    /\ last_call.ret.vba_code.summary.modules_removed = 0
    /\ last_call.ret.vba_code.summary.modules_modified = 0

\* What a common sheet counts for in the total: nothing when both worksheets
\* have no cells, 1 when exactly one has none, else the number of cell
\* differences reported for it
SheetCount(n) ==
    IF IsEmpty(Workbook1.sheets[n]) /\ IsEmpty(Workbook2.sheets[n]) THEN 0
    ELSE IF IsEmpty(Workbook1.sheets[n]) \/ IsEmpty(Workbook2.sheets[n]) THEN 1
    ELSE Len(last_call.ret.sheets.sheet_comparisons[n].details.diff_locations)

\* The sum of SheetCount over a set of sheet names
RECURSIVE SumSheetCounts(_)
SumSheetCounts(S) ==
    IF S = {} THEN 0
    ELSE LET n == CHOOSE x \in S : TRUE
         IN  SheetCount(n) + SumSheetCounts(S \ {n})

\* C16: total_differences = number of added sheets + number of removed sheets
\* + for each common sheet its cell-difference count (1 for "one side empty",
\* 0 for an identical sheet) + formula added + removed + modified + macro
\* modules added + removed + modified.
C16_TotalDifferences ==
    CompareDone =>
        LET r      == last_call.ret
            names1 == ListSet(Workbook1.sheetnames)
            names2 == ListSet(Workbook2.sheetnames)
        IN  Summary.total_differences =
                Cardinality(names2 \ names1) + Cardinality(names1 \ names2)
                + SumSheetCounts(names1 \cap names2)
                + r.formulas.summary.total_added
                + r.formulas.summary.total_removed
                + r.formulas.summary.total_modified
                + r.vba_code.summary.modules_added
                + r.vba_code.summary.modules_removed
                + r.vba_code.summary.modules_modified

\* Sheet1 has two cell differences, Sheet2 is empty on one side, Sheet3 is
\* added, one formula is added and two modules differ: 2 + 1 + 1 + 1 + 2.
C16_Witness ==
    /\ CompareDone
    /\ last_call.ret.sheets.sheet_comparisons["Sheet1"].differences = PyInt(2)
    /\ "Sheet2" \in DOMAIN last_call.ret.sheets.sheet_comparisons
    /\ last_call.ret.sheets.sheet_comparisons["Sheet2"].differences
           = PyStr("One sheet is empty")
    /\ last_call.ret.sheets.added_sheets = <<"Sheet3">>
    /\ last_call.ret.formulas.summary.total_added = 1
    /\ last_call.ret.formulas.summary.total_modified = 0
    /\ last_call.ret.vba_code.summary.modules_added = 1
    /\ last_call.ret.vba_code.summary.modules_modified = 1
    /\ Summary.total_differences = 7

\* C17: total_differences equals the sum of the four counters of
\* differences_by_type: sheets, formulas, vba_code and properties.
C17_TotalIsSumOfCounters ==
    CompareDone =>
        Summary.total_differences =
            Summary.differences_by_type.sheets
            + Summary.differences_by_type.formulas
            + Summary.differences_by_type.vba_code
            + Summary.differences_by_type.properties

\* The hint of a category
Hint(category) ==
    CASE category = "sheets"   -> "Review sheet structure differences"
      [] category = "formulas" -> "Check formula changes for accuracy"
      [] category = "vba_code" -> "Verify VBA code modifications"

\* C18: recommendations holds exactly one hint per category among sheets,
\* formulas, vba_code whose counter is not zero, none for a category whose
\* counter is zero, in the order sheets, formulas, vba_code.
C18_Recommendations ==
    CompareDone =>
        LET categories == SelectSeq(<<"sheets", "formulas", "vba_code">>,
                              LAMBDA c : Summary.differences_by_type[c] # 0)
        IN  Summary.recommendations =
                [i \in 1..Len(categories) |-> Hint(categories[i])]

\* The sheets and the formulas differ, the macros do not: two hints, the
\* sheet hint first.
C18_Witness ==
    /\ CompareDone
    /\ Summary.differences_by_type.sheets > 0
    /\ Summary.differences_by_type.formulas > 0
    /\ Summary.differences_by_type.vba_code = 0
    /\ Summary.recommendations = <<"Review sheet structure differences",
                                   "Check formula changes for accuracy">>

\* The value of a metadata field in a workbook file
FieldValue(workbook, field) ==
    CASE field = "title"            -> workbook.properties.title
      [] field = "subject"          -> workbook.properties.subject
      [] field = "creator"          -> workbook.properties.creator
      [] field = "last_modified_by" -> workbook.properties.lastModifiedBy
      [] field = "sheets_count"     -> PyInt(Len(workbook.sheetnames))

\* C19: the diff map of the metadata comparison has exactly the fields among
\* title, subject, creator, last_modified_by, sheets_count whose values
\* differ, each with its file1 and file2 value; identical is true if and only
\* if the map is empty; created and modified never cause a difference.
C19_WorkbookMetadata ==
    CompareDone =>
        LET wp     == last_call.ret.workbook_properties
            fields == {"title", "subject", "creator", "last_modified_by",
                       "sheets_count"}
        IN  /\ DOMAIN wp.differences =
                   {f \in fields : FieldValue(Workbook1, f) # FieldValue(Workbook2, f)}
            /\ \A f \in DOMAIN wp.differences :
                   wp.differences[f] = [file1 |-> FieldValue(Workbook1, f),
                                        file2 |-> FieldValue(Workbook2, f)]
            /\ wp.identical <=> DOMAIN wp.differences = {}
            /\ "created" \notin DOMAIN wp.differences
            /\ "modified" \notin DOMAIN wp.differences

\* The two files differ in title, last_modified_by, created and modified:
\* the map has the first two and only them.
C19_Witness ==
    /\ CompareDone
    /\ Workbook1.properties.created # Workbook2.properties.created
    /\ Workbook1.properties.modified # Workbook2.properties.modified
    /\ Workbook1.properties.title # Workbook2.properties.title
    /\ DOMAIN last_call.ret.workbook_properties.differences
           = {"title", "last_modified_by"}
    /\ ~last_call.ret.workbook_properties.identical

\* C20: comparing a loaded document against itself yields files_identical =
\* true, total_differences = 0, no added or removed sheets, every common
\* sheet identical with no cell differences, no added, removed or modified
\* formulas, no added, removed or modified macro modules and no metadata
\* differences.
C20_SelfComparison ==
    CompareDone /\ parser1.file_path = parser2.file_path =>
        LET r == last_call.ret
        IN  /\ Summary.files_identical
            /\ Summary.total_differences = 0
            /\ Summary.differences_by_type
                   = [sheets |-> 0, formulas |-> 0, vba_code |-> 0, properties |-> 0]
            /\ r.sheets.added_sheets = <<>>
            /\ r.sheets.removed_sheets = <<>>
            /\ ListSet(r.sheets.common_sheets) = ListSet(Workbook1.sheetnames)
            /\ \A n \in DOMAIN r.sheets.sheet_comparisons :
                   /\ r.sheets.sheet_comparisons[n].identical
                   /\ r.sheets.sheet_comparisons[n].differences = PyInt(0)
                   /\ "diff_locations" \in DOMAIN r.sheets.sheet_comparisons[n].details
                          => r.sheets.sheet_comparisons[n].details.diff_locations = <<>>
            /\ r.formulas.added_formulas = EmptyDict
            /\ r.formulas.removed_formulas = EmptyDict
            /\ r.formulas.modified_formulas = EmptyDict
            /\ r.vba_code.modules.added = <<>>
            /\ r.vba_code.modules.removed = <<>>
            /\ r.vba_code.modules.modified = <<>>
            /\ r.workbook_properties.identical
            /\ r.workbook_properties.differences = EmptyDict

\* One file with a cell without value, an empty cell, a formula, a second
\* worksheet and two macro modules, loaded on both sides
C20_Witness ==
    /\ CompareDone
    /\ parser1.file_path = parser2.file_path
    /\ Workbook1.sheets["Sheet1"] = <<<<"", "=SUM(D2:D5)">>, <<"x", None>>>>
    /\ Len(Workbook1.sheetnames) = 3
    /\ Workbook1.properties.title = PyNone
    /\ Len(files[parser1.file_path].entries) = 3
    /\ Summary.files_identical
    /\ Summary.total_differences = 0

\* C22: compare_all leaves both loaded documents unchanged: a step that
\* ends with compare_all as the most recent call changes neither parser
\* (sheet names, sheet grids, formula mappings, workbook properties).
C22_DocumentsUnchanged ==
    [][last_call'.op = "compare_all" => parser1' = parser1 /\ parser2' = parser2]_vars

\* After compare_all both parsers still hold what load_workbook extracted
\* from two different files with sheets, formulas and properties.
C22_Witness ==
    /\ CompareDone
    /\ parser1.file_path # parser2.file_path
    /\ files[parser1.file_path] # files[parser2.file_path]
    /\ parser1 = LoadWorkbook(NewParser(parser1.file_path), files)
    /\ parser2 = LoadWorkbook(NewParser(parser2.file_path), files)
    /\ GetFormulas(parser1) # EmptyDict
    /\ Len(GetSheetNames(parser2)) = 3
    /\ last_call.ret.summary.total_differences > 0

\* C25: whenever files_identical is true, total_differences is 0 and every
\* common sheet's comparison is identical.
C25_VerdictConsistentWithCounts ==
    CompareDone /\ Summary.files_identical =>
        /\ Summary.total_differences = 0
        /\ \A n \in DOMAIN last_call.ret.sheets.sheet_comparisons :
               last_call.ret.sheets.sheet_comparisons[n].identical

\* The (sheet, cell) pairs of a formula mapping
FormulaKeys(mapping) ==
    UNION {{<<sheet_name, cell>> : cell \in DOMAIN mapping[sheet_name]} :
              sheet_name \in DOMAIN mapping}

\* The result of comparing the two loaded documents the other way round
Swapped == CompareAllResults(parser2, parser1, files)

\* A cell difference with its two values exchanged
SwapValues(loc) ==
    [row |-> loc.row, col |-> loc.col,
     file1_value |-> loc.file2_value, file2_value |-> loc.file1_value]

\* C26: comparing (document 2, document 1) instead of (document 1, document
\* 2) exchanges added and removed in the sheet-set, formula and macro
\* results, keeps the common sheets, the modified and the identical or
\* unchanged entries, reports the cell differences at the same positions with
\* file1_value and file2_value exchanged, and keeps files_identical and
\* total_differences.
C26_SwapSymmetry ==
    CompareDone =>
        LET r == last_call.ret
            s == Swapped
        IN  /\ ListSet(s.sheets.added_sheets) = ListSet(r.sheets.removed_sheets)
            /\ ListSet(s.sheets.removed_sheets) = ListSet(r.sheets.added_sheets)
            /\ ListSet(s.sheets.common_sheets) = ListSet(r.sheets.common_sheets)
            /\ s.formulas.added_formulas = r.formulas.removed_formulas
            /\ s.formulas.removed_formulas = r.formulas.added_formulas
            /\ FormulaKeys(s.formulas.modified_formulas)
                   = FormulaKeys(r.formulas.modified_formulas)
            /\ FormulaKeys(s.formulas.identical_formulas)
                   = FormulaKeys(r.formulas.identical_formulas)
            /\ ListSet(s.vba_code.modules.added) = ListSet(r.vba_code.modules.removed)
            /\ ListSet(s.vba_code.modules.removed) = ListSet(r.vba_code.modules.added)
            /\ ListSet(s.vba_code.modules.modified) = ListSet(r.vba_code.modules.modified)
            /\ ListSet(s.vba_code.modules.unchanged)
                   = ListSet(r.vba_code.modules.unchanged)
            /\ DOMAIN s.sheets.sheet_comparisons = DOMAIN r.sheets.sheet_comparisons
            /\ \A n \in DOMAIN r.sheets.sheet_comparisons :
                   LET rc == r.sheets.sheet_comparisons[n]
                       sc == s.sheets.sheet_comparisons[n]
                   IN  /\ sc.identical = rc.identical
                       /\ sc.differences = rc.differences
                       /\ "diff_locations" \in DOMAIN rc.details =>
                              sc.details.diff_locations =
                                  [i \in DOMAIN rc.details.diff_locations |->
                                      SwapValues(rc.details.diff_locations[i])]
            /\ s.summary.files_identical = r.summary.files_identical
            /\ s.summary.total_differences = r.summary.total_differences

\* Document 1 has Sheet2 and two modules, document 2 has Sheet3 with a
\* formula and one module, and Sheet1 differs in two cells.
C26_Witness ==
    /\ CompareDone
    /\ last_call.ret.sheets.added_sheets = <<"Sheet3">>
    /\ last_call.ret.sheets.removed_sheets = <<"Sheet2">>
    /\ last_call.ret.formulas.summary.total_added = 1
    /\ last_call.ret.formulas.summary.total_removed = 0
    /\ last_call.ret.vba_code.modules.removed = <<"Module2">>
    /\ last_call.ret.vba_code.modules.modified = <<"Module1">>
    /\ last_call.ret.sheets.sheet_comparisons["Sheet1"].differences = PyInt(2)
    /\ Swapped.sheets.added_sheets = <<"Sheet2">>
    /\ Swapped.vba_code.modules.added = <<"Module2">>

(***************************************************************************)
(* The engine over its lifetime: any sequence of load_files and            *)
(* compare_all calls on one engine, over a fixed file system.              *)
(***************************************************************************)

\* The paths handed to load_files; "missing.xlsx" is not in the file system.
EnginePaths == {"a.xlsx", "b.xlsx", "bad.xlsx", "missing.xlsx"}

\* Two workbook files and one file that is neither a workbook nor an archive
EngineFiles ==
    [file_path \in {"a.xlsx", "b.xlsx", "bad.xlsx"} |->
        CASE file_path = "a.xlsx" ->
                 Document(<<[name |-> "Sheet1", rows |-> <<<<"x", "=SUM(D2:D5)">>>>],
                            [name |-> "Sheet2", rows |-> <<<<"x">>>>]>>,
                          CHOOSE properties \in DocProperties :
                              properties.title = PyNone
                                  /\ properties.created = PyStr("2024-01-01"),
                          <<[file_name |-> "xl/vbaProject.bin", data |-> <<3>>,
                             readable |-> TRUE],
                            [file_name |-> "xl/vba/Module1.bin", data |-> <<1, 2>>,
                             readable |-> TRUE]>>)
          [] file_path = "b.xlsx" ->
                 Document(<<[name |-> "Sheet1", rows |-> <<<<"x", "=SUM(D2:D6)">>>>]>>,
                          CHOOSE properties \in DocProperties :
                              properties.title = PyStr("Budget"),
                          <<[file_name |-> "xl/vbaProject.bin", data |-> <<3>>,
                             readable |-> TRUE],
                            [file_name |-> "xl/vba/Module1.bin", data |-> <<3>>,
                             readable |-> TRUE],
                            [file_name |-> "xl/vba/Module2.bin", data |-> <<1, 2>>,
                             readable |-> TRUE]>>)
          [] file_path = "bad.xlsx" ->
                 [is_zip |-> FALSE, entries |-> <<>>, workbook |-> PyNone]]

\* A new engine
EngineInit ==
    /\ files = EngineFiles
    /\ parser1 = PyNone
    /\ parser2 = PyNone
    /\ comparison_results = EmptyDict
    /\ last_load = PyNone
    /\ last_call = PyNone
    /\ prev_call = PyNone
    /\ compared_paths = PyNone
    /\ SheetIdle
    /\ FormulaIdle
    /\ VbaIdle
    /\ GuiIdle

LoadFilesCall == \E file1_path, file2_path \in EnginePaths : LoadFiles(file1_path, file2_path)

\* The file that gets deleted while the engine is in use
RemovablePaths == {"b.xlsx"}

RemoveFileStep == \E file_path \in RemovablePaths : RemoveFile(file_path)

EngineNext ==
    \/ LoadFilesCall /\ UNCHANGED gui_vars
    \/ CompareAllCall /\ UNCHANGED gui_vars
    \/ GetDetailedDifferencesCall /\ UNCHANGED gui_vars
    \/ ExportComparisonDataCall /\ UNCHANGED gui_vars
    \/ RemoveFileStep /\ UNCHANGED gui_vars

SpecEngine == EngineInit /\ [][EngineNext]_vars

(***************************************************************************)
(* Properties of the engine's call sequences (checked under SpecEngine)    *)
(***************************************************************************)

\* The keys of a comparison result
ResultKeys == {"workbook_properties", "sheets", "formulas", "vba_code", "summary"}

\* C13: compare_all on an engine on which load_files was never called yields
\* no comparison result (it returns the empty mapping), runs no
\* sub-comparison (comparison_results stays empty), and this outcome differs
\* from every comparison result, which has the five result keys.
C13_NoLoadNoResult ==
    last_call # PyNone /\ last_call.op = "compare_all" =>
        /\ last_load = PyNone =>
              /\ last_call.ret = EmptyDict
              /\ comparison_results = EmptyDict
        /\ ~ParsersMissing(parser1, parser2) =>
              /\ last_call.ret # EmptyDict
              /\ DOMAIN last_call.ret = ResultKeys

\* compare_all was called on a new engine.
C13_Witness ==
    /\ last_call # PyNone
    /\ last_call.op = "compare_all"
    /\ last_load = PyNone
    /\ parser1 = PyNone
    /\ parser2 = PyNone
    /\ last_call.ret = EmptyDict

\* C14: compare_all returns a comparison result only if the most recent
\* load_files returned True; after a load_files that returned False it
\* returns no result.
C14_ResultOnlyAfterSuccessfulLoad ==
    last_call # PyNone /\ last_call.op = "compare_all" /\ last_call.ret # EmptyDict =>
        last_load = [ret |-> TRUE]

\* C21: with the documents unchanged, compare_all returns what it returns
\* on an engine that has no stored results, whatever the engine has stored
\* from earlier calls, and two calls in a row return identical results.
C21_Idempotence ==
    last_call # PyNone /\ last_call.op = "compare_all" /\ files = EngineFiles =>
        /\ last_call.ret = CompareAll(parser1, parser2, files, EmptyDict).ret
        /\ prev_call # PyNone /\ prev_call.op = "compare_all" =>
              prev_call.ret = last_call.ret

\* Two compare_all calls in a row on two different loaded documents
C21_Witness ==
    /\ last_call # PyNone
    /\ prev_call # PyNone
    /\ prev_call.op = "compare_all"
    /\ last_call.op = "compare_all"
    /\ files = EngineFiles
    /\ last_load = [ret |-> TRUE]
    /\ parser1.file_path # parser2.file_path
    /\ last_call.ret # EmptyDict
    /\ prev_call.ret = last_call.ret

\* The names of the macro modules in a workbook file
ModuleNamesOf(file) ==
    {ModuleName(file.entries[i].file_name) :
        i \in {j \in DOMAIN file.entries :
                  /\ IsVbaModuleFile(file.entries[j].file_name)
                  /\ file.entries[j].readable}}

\* The analyzer cannot open the file of this parser.
ExtractionFails(parser) == parser.file_path \notin DOMAIN files

\* C23: when compare_all runs on two loaded documents and macro extraction
\* fails for one of them, it still returns a result with all sections: the
\* failing document counts as having no modules, so every module of the other
\* document is reported as removed (as added, if the failing document is the
\* first one) and nothing else is reported; the sheets and formulas sections
\* are what they are when the extraction works.
C23_MacroExtractionFailure ==
    [][(/\ last_call' # PyNone
        /\ last_call'.op = "compare_all"
        /\ last_load = [ret |-> TRUE]
        /\ ExtractionFails(parser1) \/ ExtractionFails(parser2))
       => LET r == last_call'.ret
              m == r.vba_code.modules
              intact == CompareAllResults(parser1, parser2, EngineFiles)
          IN  /\ DOMAIN r = ResultKeys
              /\ r.sheets = intact.sheets
              /\ r.formulas = intact.formulas
              /\ r.workbook_properties = intact.workbook_properties
              /\ DOMAIN r.summary = {"files_identical", "total_differences",
                                     "differences_by_type", "recommendations"}
              /\ m.modified = <<>>
              /\ m.unchanged = <<>>
              /\ ListSet(m.removed) =
                     IF ExtractionFails(parser1) THEN {}
                     ELSE ModuleNamesOf(files[parser1.file_path])
              /\ ListSet(m.added) =
                     IF ExtractionFails(parser2) THEN {}
                     ELSE ModuleNamesOf(files[parser2.file_path])]_vars

\* b.xlsx was loaded as the second document and deleted before compare_all:
\* the module of a.xlsx is reported as removed, although b.xlsx had a module
\* of that name.
C23_Witness ==
    /\ last_call # PyNone
    /\ last_call.op = "compare_all"
    /\ last_load = [ret |-> TRUE]
    /\ parser1.file_path = "a.xlsx"
    /\ parser2.file_path = "b.xlsx"
    /\ "b.xlsx" \notin DOMAIN files
    /\ last_call.ret.vba_code.modules.removed = <<"Module1">>
    /\ last_call.ret.vba_code.modules.added = <<>>
    /\ last_call.ret.vba_code.modules.modified = <<>>
    /\ last_call.ret.sheets.removed_sheets = <<"Sheet2">>
    /\ last_call.ret.formulas.summary.total_modified = 1

\* C24: get_detailed_differences returns an empty result for every argument
\* as long as no compare_all has produced a result; after one, it returns the
\* whole stored result when called without a sheet name (None or the empty
\* string), the Table Aligner result of that sheet when called with the name
\* of a common sheet, and an empty result for any other name.
C24_GetDetailedDifferences ==
    last_call # PyNone /\ last_call.op = "get_detailed_differences" =>
        IF compared_paths = PyNone
        THEN last_call.ret = EmptyDict
        ELSE IF last_call.args \in {None, ""}
        THEN last_call.ret = comparison_results
        ELSE IF last_call.args \in ListSet(comparison_results.sheets.common_sheets)
        THEN /\ last_call.ret =
                    comparison_results.sheets.sheet_comparisons[last_call.args]
             /\ DOMAIN last_call.ret = {"identical", "differences", "details"}
        ELSE last_call.ret = EmptyDict

\* a.xlsx and b.xlsx were compared and the comparison of their common sheet
\* Sheet1 was asked for.
C24_Witness ==
    /\ last_call # PyNone
    /\ last_call.op = "get_detailed_differences"
    /\ last_call.args = "Sheet1"
    /\ compared_paths # PyNone
    /\ compared_paths = <<"a.xlsx", "b.xlsx">>
    /\ comparison_results.sheets.common_sheets = <<"Sheet1">>
    /\ comparison_results.sheets.removed_sheets = <<"Sheet2">>
    /\ last_call.ret.differences = PyInt(1)

\* C27: whenever export_comparison_data returns non-empty results, the file1
\* and file2 paths of its metadata are the paths of the two documents whose
\* comparison produced those results.
C27_ExportPathsMatchResults ==
    /\ last_call # PyNone
    /\ last_call.op = "export_comparison_data"
    /\ last_call.ret.results # EmptyDict
    => <<last_call.ret.metadata.file1, last_call.ret.metadata.file2>> = compared_paths

(***************************************************************************)
(* The GUI: gui_interface.py.  The UI thread runs one handler or one       *)
(* root.after callback at a time; each comparison runs in a thread of its  *)
(* own, whose steps interleave with the UI thread's.                       *)
(***************************************************************************)

\* The comparisons one run of the model starts
MaxRuns == 2

\* The files the file dialogs offer: a workbook and a file that is no workbook
GuiPaths == {"a.xlsx", "bad.xlsx"}

\* ExcelComparisonGUI.__init__, with what the result widgets and the last
\* message box show; cleared records that Clear Results was invoked after the
\* last comparison was started
NewGui ==
    [file1_path         |-> "",
     file2_path         |-> "",
     comparison_results |-> EmptyDict,
     compare_button     |-> "normal",
     status_var         |-> "Ready",
     results_display    |-> EmptyDict,
     messagebox         |-> None,
     cleared            |-> FALSE]

\* The files behind these names: a workbook with one sheet, and a file that
\* load_workbook rejects
GuiFiles ==
    [file_path \in GuiPaths |->
        IF file_path = "a.xlsx"
        THEN Document(<<[name |-> "Sheet1", rows |-> <<<<"x">>>>]>>,
                      CHOOSE properties \in DocProperties :
                          properties.title = PyNone
                              /\ properties.created = PyStr("2024-01-01"),
                      <<>>)
        ELSE [is_zip |-> FALSE, entries |-> <<>>, workbook |-> PyNone]]

\* The window is open on a new engine; no comparison has been started.
GuiInit ==
    /\ files = GuiFiles
    /\ parser1 = PyNone
    /\ parser2 = PyNone
    /\ comparison_results = EmptyDict
    /\ last_load = PyNone
    /\ last_call = PyNone
    /\ prev_call = PyNone
    /\ compared_paths = PyNone
    /\ gui = NewGui
    /\ workers = <<>>
    /\ after_queue = <<>>
    /\ SheetIdle
    /\ FormulaIdle
    /\ VbaIdle

\* _browse_file1: the dialog returns a file name, or "" when it is cancelled
BrowseFile1 ==
    \E filename \in GuiPaths \cup {""} :
        /\ gui' = IF filename # "" THEN [gui EXCEPT !.file1_path = filename] ELSE gui
        /\ UNCHANGED <<workers, after_queue, engine_vars, sheet_vars, formula_vars, vba_vars>>

\* _browse_file2
BrowseFile2 ==
    \E filename \in GuiPaths \cup {""} :
        /\ gui' = IF filename # "" THEN [gui EXCEPT !.file2_path = filename] ELSE gui
        /\ UNCHANGED <<workers, after_queue, engine_vars, sheet_vars, formula_vars, vba_vars>>

\* A new thread at the start of _perform_comparison; finished counts the
\* times it handed _comparison_finished to root.after
NewWorker == [pc |-> "load", finished |-> 0]

\* _start_comparison that starts the thread and leaves the button enabled
StartComparisonLeavingButton ==
    /\ gui.compare_button = "normal"
    /\ Len(workers) < MaxRuns
    /\ IF gui.file1_path = "" \/ gui.file2_path = ""
       THEN /\ gui' = [gui EXCEPT !.messagebox = "Please select both Excel files"]
            /\ UNCHANGED workers
       ELSE IF gui.file1_path \notin DOMAIN files \/ gui.file2_path \notin DOMAIN files
       THEN /\ gui' = [gui EXCEPT !.messagebox = "One or both files do not exist"]
            /\ UNCHANGED workers
       ELSE /\ gui' = [gui EXCEPT !.status_var = "Comparing files... Please wait.",
                                  !.cleared = FALSE]
            /\ workers' = Append(workers, NewWorker)
    /\ UNCHANGED <<after_queue, engine_vars, sheet_vars, formula_vars, vba_vars>>

\* _start_comparison: a click on the compare button, which Tk delivers only
\* while the button is enabled
StartComparison ==
    /\ gui.compare_button = "normal"
    /\ Len(workers) < MaxRuns
    /\ IF gui.file1_path = "" \/ gui.file2_path = ""
       THEN /\ gui' = [gui EXCEPT !.messagebox = "Please select both Excel files"]
            /\ UNCHANGED workers
       ELSE IF gui.file1_path \notin DOMAIN files \/ gui.file2_path \notin DOMAIN files
       THEN /\ gui' = [gui EXCEPT !.messagebox = "One or both files do not exist"]
            /\ UNCHANGED workers
       ELSE /\ gui' = [gui EXCEPT !.compare_button = "disabled",
                                  !.status_var = "Comparing files... Please wait.",
                                  !.cleared = FALSE]
            /\ workers' = Append(workers, NewWorker)
    /\ UNCHANGED <<after_queue, engine_vars, sheet_vars, formula_vars, vba_vars>>

\* What load_files returns for these paths on this file system
LoadFilesReturn(file1_path, file2_path, fs) ==
    /\ LoadWorkbookReturn(NewParser(file1_path), fs)
    /\ LoadWorkbookReturn(NewParser(file2_path), fs)

\* _perform_comparison whose return after a failed load skips the finally clause
WorkerLoadReturningEarly(w) ==
    /\ workers[w].pc = "load"
    /\ IF LoadFilesReturn(gui.file1_path, gui.file2_path, files)
       THEN /\ workers' = [workers EXCEPT ![w].pc = "compare"]
            /\ UNCHANGED after_queue
       ELSE /\ after_queue' = Append(after_queue, "showerror_load")
            /\ workers' = [workers EXCEPT ![w].pc = "done"]
    /\ UNCHANGED gui
    /\ LoadFiles(gui.file1_path, gui.file2_path)

\* _perform_comparison, the load: load_files on the paths the GUI holds now;
\* a failed load schedules the error box and returns through the finally clause
WorkerLoad(w) ==
    /\ workers[w].pc = "load"
    /\ IF LoadFilesReturn(gui.file1_path, gui.file2_path, files)
       THEN /\ workers' = [workers EXCEPT ![w].pc = "compare"]
            /\ UNCHANGED after_queue
       ELSE /\ after_queue' = Append(after_queue, "showerror_load")
            /\ workers' = [workers EXCEPT ![w].pc = "finally"]
    /\ UNCHANGED gui
    /\ LoadFiles(gui.file1_path, gui.file2_path)

\* _perform_comparison, the comparison: the thread itself stores what
\* compare_all returned in the GUI's comparison_results
WorkerCompare(w) ==
    /\ workers[w].pc = "compare"
    /\ workers' = [workers EXCEPT ![w].pc = "update"]
    /\ UNCHANGED after_queue
    /\ CompareAllCall
    /\ gui' = [gui EXCEPT !.comparison_results = last_call'.ret]

\* _perform_comparison, the comparison when compare_all raises: nothing is stored
WorkerCompareRaises(w) ==
    /\ workers[w].pc = "compare"
    /\ workers' = [workers EXCEPT ![w].pc = "except"]
    /\ UNCHANGED <<gui, after_queue, engine_vars, sheet_vars, formula_vars, vba_vars>>

\* _perform_comparison: self.root.after(0, self._update_results_display)
WorkerScheduleUpdate(w) ==
    /\ workers[w].pc = "update"
    /\ after_queue' = Append(after_queue, "_update_results_display")
    /\ workers' = [workers EXCEPT ![w].pc = "finally"]
    /\ UNCHANGED <<gui, engine_vars, sheet_vars, formula_vars, vba_vars>>

\* _perform_comparison, the except clause: the error box is scheduled
WorkerExcept(w) ==
    /\ workers[w].pc = "except"
    /\ after_queue' = Append(after_queue, "showerror_failed")
    /\ workers' = [workers EXCEPT ![w].pc = "finally"]
    /\ UNCHANGED <<gui, engine_vars, sheet_vars, formula_vars, vba_vars>>

\* _perform_comparison, the finally clause: _comparison_finished is scheduled
\* and the thread ends
WorkerFinally(w) ==
    /\ workers[w].pc = "finally"
    /\ after_queue' = Append(after_queue, "_comparison_finished")
    /\ workers' = [workers EXCEPT ![w].pc = "done", ![w].finished = @ + 1]
    /\ UNCHANGED <<gui, engine_vars, sheet_vars, formula_vars, vba_vars>>

\* What a callback does to the GUI when the UI thread runs it
RunCallbackOn(g, callback) ==
    CASE callback = "_update_results_display" ->
             IF g.comparison_results = EmptyDict THEN g
             ELSE [g EXCEPT !.results_display = g.comparison_results]
      [] callback = "_comparison_finished" ->
             [g EXCEPT !.compare_button = "normal",
                       !.status_var = "Comparison completed"]
      [] callback = "showerror_load" ->
             [g EXCEPT !.messagebox = "Failed to load one or both files"]
      [] callback = "showerror_failed" ->
             [g EXCEPT !.messagebox = "Comparison failed"]

\* The UI thread runs the oldest callback handed to root.after.
RunCallback ==
    /\ after_queue # <<>>
    /\ gui' = RunCallbackOn(gui, Head(after_queue))
    /\ after_queue' = Tail(after_queue)
    /\ UNCHANGED <<workers, engine_vars, sheet_vars, formula_vars, vba_vars>>

\* _clear_results
ClearResults ==
    /\ gui' = [gui EXCEPT !.comparison_results = EmptyDict,
                          !.results_display = EmptyDict,
                          !.status_var = "Ready",
                          !.cleared = TRUE]
    /\ UNCHANGED <<workers, after_queue, engine_vars, sheet_vars, formula_vars, vba_vars>>

\* What the message box says when the report was written, and when not
ReportOutcomes == {"report saved", "Failed to generate report"}

\* _export_excel_report, _export_pdf_report, _export_text_report: refused
\* while comparison_results is empty; otherwise the save dialog is cancelled,
\* or the engine's export data goes to the report generator
ExportReport ==
    IF gui.comparison_results = EmptyDict
    THEN /\ gui' = [gui EXCEPT !.messagebox = "No comparison results to export"]
         /\ UNCHANGED <<workers, after_queue, engine_vars, sheet_vars, formula_vars, vba_vars>>
    ELSE \/ UNCHANGED vars
         \/ /\ ExportComparisonDataCall
            /\ \E outcome \in ReportOutcomes : gui' = [gui EXCEPT !.messagebox = outcome]
            /\ UNCHANGED <<workers, after_queue>>

WorkerStep ==
    \E w \in DOMAIN workers :
        \/ WorkerLoad(w)
        \/ WorkerCompareRaises(w)
        \/ WorkerCompare(w)
        \/ WorkerScheduleUpdate(w)
        \/ WorkerExcept(w)
        \/ WorkerFinally(w)

GuiNext ==
    \/ BrowseFile1
    \/ BrowseFile2
    \/ StartComparison
    \/ WorkerStep
    \/ RunCallback
    \/ ClearResults
    \/ ExportReport

SpecGui == GuiInit /\ [][GuiNext]_vars

\* The threads are scheduled and the event loop keeps running its callbacks.
SpecGuiFair == SpecGui /\ WF_gui_vars(WorkerStep) /\ WF_gui_vars(RunCallback)

(***************************************************************************)
(* Properties of the GUI (checked under SpecGui and SpecGuiFair)           *)
(***************************************************************************)

\* The threads that have not yet reached the end of _perform_comparison
Running == {w \in DOMAIN workers : workers[w].pc # "done"}

\* The threads that are inside a call on the shared ComparisonEngine
UsingEngine == {w \in DOMAIN workers : workers[w].pc \in {"load", "compare"}}

\* Does the queue of root.after hold this callback?
Scheduled(callback) == \E i \in DOMAIN after_queue : after_queue[i] = callback

\* At most one comparison thread is running, and while one is, or while its
\* _comparison_finished is still waiting, the compare button is disabled.
OneComparisonInFlight ==
    /\ Cardinality(Running) <= 1
    /\ Cardinality(UsingEngine) <= 1
    /\ Running # {} => gui.compare_button = "disabled"
    /\ Scheduled("_comparison_finished") => Running = {}

\* The button goes back to enabled only when the UI thread runs
\* _comparison_finished, and the result widgets take a result only when the
\* UI thread runs _update_results_display; no step of a thread does either.
OnlyThroughCallbacks ==
    /\ (gui.compare_button = "disabled" /\ gui'.compare_button = "normal")
          => /\ after_queue # <<>>
             /\ Head(after_queue) = "_comparison_finished"
             /\ after_queue' = Tail(after_queue)
             /\ workers' = workers
    /\ (gui'.results_display # gui.results_display /\ gui'.results_display # EmptyDict)
          => /\ after_queue # <<>>
             /\ Head(after_queue) = "_update_results_display"
             /\ after_queue' = Tail(after_queue)
             /\ workers' = workers
    /\ workers' # workers => /\ gui'.results_display = gui.results_display
                             /\ gui'.compare_button = gui.compare_button
                                   \/ Len(workers') > Len(workers)

FinishedOncePerWorker ==
    \A w \in DOMAIN workers :
        workers[w].finished = IF workers[w].pc = "done" THEN 1 ELSE 0

\* Thread w takes a step on one of the paths of a failed comparison.
FailureStep(w) ==
    \/ workers[w].pc = "load" /\ workers'[w].pc = "finally"
    \/ workers[w].pc = "compare" /\ workers'[w].pc = "except"
    \/ workers[w].pc = "except" /\ workers'[w].pc = "finally"
    \/ workers[w].pc = "finally" /\ workers'[w].pc = "done"
          /\ ~ Scheduled("_update_results_display")

\* The steps of a failed comparison, and the callbacks it schedules, leave
\* the GUI's comparison_results and what the result widgets show as they were.
FailureKeepsResults ==
    LET kept == /\ gui'.comparison_results = gui.comparison_results
                /\ gui'.results_display = gui.results_display
    IN  /\ \A w \in DOMAIN workers : FailureStep(w) => kept
        /\ (/\ after_queue # <<>>
            /\ after_queue' = Tail(after_queue)
            /\ Head(after_queue) # "_update_results_display") => kept

\* C29: every comparison started from the GUI ends with the compare button
\* enabled again: every started thread reaches its end, whether load_files
\* fails, compare_all raises or the comparison succeeds; it has then scheduled
\* _comparison_finished exactly once, and a disabled button leads to an
\* enabled one.  A failed load or an exception leaves the GUI's
\* comparison_results, and what is displayed, unchanged.
C29_ButtonReenabled ==
    /\ (gui.compare_button = "disabled") ~> (gui.compare_button = "normal")
    /\ \A w \in 1..MaxRuns :
           (w \in DOMAIN workers)
               ~> (w \in DOMAIN workers /\ workers[w].pc = "done" /\ workers[w].finished = 1)
    /\ [](FinishedOncePerWorker)
    /\ [][FailureKeepsResults]_gui_vars

\* After a successful comparison a second one failed to load its files: its
\* error was shown, the button is enabled again and the first result is kept.
C29_Witness ==
    /\ Len(workers) = 2
    /\ workers[2].pc = "done"
    /\ gui.messagebox = "Failed to load one or both files"
    /\ gui.compare_button = "normal"
    /\ after_queue = <<>>
    /\ gui.comparison_results # EmptyDict
    /\ gui.results_display = gui.comparison_results

\* C30: under every interleaving of the UI thread with a comparison thread,
\* once Clear Results was invoked the GUI's comparison_results is empty (so
\* the exports refuse with "No comparison results to export") until a new
\* comparison is started: a thread started before the clear does not
\* repopulate it.
C30_ClearedStaysEmpty == gui.cleared => gui.comparison_results = EmptyDict

=============================================================================
